---- MODULE Spec2Model ----
(***************************************************************************)
(* dnbd3 proxy server: cache map of an image (image.c), image registry     *)
(* and reference counting (image.c), uplink worker (uplink.c).             *)
(***************************************************************************)
EXTENDS Integers, Naturals, Sequences, FiniteSets, TLC

VARIABLES
    virtualFilesize,  \* image->virtualFilesize
    cache_map,        \* image->cache_map: NULL or byte array [0..len-1 -> 0..255]
    mark,             \* image_updateCachemap in progress: its arguments, or NoMark
    lastOp,           \* summary of the last finished cache-map operation
    presents,         \* byte ranges marked present so far (mark sequences)
    notPresents,      \* byte ranges marked not present so far (mark sequences)
    phase             \* phase of a mark sequence: "set" then "clear"

VARIABLES
    images,           \* _images[]: image id per slot, 0 for a NULL slot
    num_images,       \* _num_images
    users,            \* image->users of every image object
    freeCount,        \* how often image_free released the image object
    freedInUse,       \* image_free ran on the image while a reference was outstanding
    imageListLock,    \* owner thread of imageListLock, 0 if unlocked
    imgLock,          \* owner thread of image->lock per image, 0 if unlocked
    reloadLock,       \* owner thread of reloadLock, 0 if unlocked
    th,               \* per thread: position in the running function and its locals
    lastRelease       \* what the last finished image_release did

VARIABLES
    queue,            \* link->queue[]: the request slots
    queueLen,         \* link->queueLen
    fd,               \* link->fd, -1 if not connected
    betterFd,         \* link->betterFd, -1 if none
    sockets,          \* the sockets to uplink servers that are open
    inflight,         \* block requests written to link->fd and not yet answered
    rttTestResult,    \* link->rttTestResult
    shutdown,         \* link->shutdown (image->uplink is NULL from then on)
    serverShutdown,   \* _shutdown
    signal,           \* link->signal has a wake-up that was not read yet
    up,               \* uplink thread: position and locals
    wr,               \* the result of writing a reply's payload to the cache file
    req,              \* per handle: the range its client waits for, or NoReq
    connected,        \* which clients are connected
    workload,         \* which clients' requests and ranges are looked at
    lastReq,          \* return value of the last uplink_request
    badReply          \* a client got a reply it was not waiting for

VARIABLES
    imgUplink,        \* image->uplink of one incomplete image: 0 (NULL) or the worker
    imgMap,           \* image->cache_map of that image is not NULL
    initLock,         \* owner thread of that image's lock, 0 if unlocked
    starter,          \* per thread: where it is on its way into uplink_init
    workers,          \* the uplink threads of the image that run
    cloner,           \* the thread in loadImageProxy that cloned the image, or 0
    starts,           \* how many times uplink_init was called
    assertFailed,     \* assert( image->uplink == NULL ) failed: the server aborted
    ndebug            \* the build has NDEBUG: assert() does nothing

mapVars == <<virtualFilesize, cache_map, mark, lastOp, presents, notPresents, phase>>

regVars == <<images, num_images, users, freeCount, freedInUse, imageListLock, imgLock,
             reloadLock, th, lastRelease>>

upVars == <<queue, queueLen, fd, betterFd, sockets, inflight, rttTestResult, shutdown,
            serverShutdown, signal, up, wr, req, connected, lastReq, badReply>>

VARIABLES
    regList,          \* _images[] as image_get scans it: image objects, 0 for NULL
    objName,          \* image->name of the objects in regList
    objRid,           \* image->rid of the objects in regList
    objUsers,         \* image->users of the objects in regList
    listLock,         \* owner thread of imageListLock during image_get, 0 if unlocked
    objLock,          \* owner thread of image->lock per object, 0 if unlocked
    caller,           \* per thread: the image_get call it is in
    gets              \* how many image_get calls were started

VARIABLES
    altRtt,           \* altservers[].rtt of the client's alt-server table
    bestCount,        \* altservers[].bestCount
    currentServer,    \* index of connection.currentServer in altservers[], 0 if none
    sockFd,           \* connection.sockFd, -1 if there is no connection
    lastPass,         \* what the last run of probeAltServers decided
    scenario,         \* the measurements that are looked at
    passes,           \* runs of probeAltServers so far (alternating measurements)
    switches,         \* connection switches so far (alternating measurements)
    crashed           \* the client dereferenced a NULL pointer and was killed

\* the locks of the server and the threads that take them
VARIABLES
    holder,           \* the thread that holds each lock, "none" if it is free
    routine,          \* the function each thread is in, "idle" if in none
    at,               \* the next operation of each thread in its function
    running           \* the threads that run

\* image_get that checks whether the image works
VARIABLES
    chkList,          \* _images[] with the objects of one name and rid, 0 for NULL
    chkNum,           \* _num_images
    chkAlive,         \* the image objects that are allocated
    chkWorking,       \* image->working of every object
    chkReadFd,        \* image->readFd of every object is open (not -1)
    chkUsers,         \* image->users of every object
    lastGet           \* what the last image_get found and returned

\* the integrity checker
VARIABLES
    checkQueue,       \* checkQueue[] of integrity.c, image 0 for NULL
    integrityQueueLen, \* queueLen of integrity.c
    bRunning,         \* bRunning of integrity.c
    checker,          \* where integrity_main is, its index i and the pair it checks
    hashDone,         \* the hash blocks of every image that are complete in its cache map
    lastCheck,        \* the last call of integrity_check and the index it wrote to
    lastClear         \* the last range integrity_main passed to image_updateCachemap

\* the RTT measurements of the server
VARIABLES
    pending,          \* pending[] of altservers.c: "NULL", "uplink" or "other"
    consumeLock,      \* the holder of pendingLockConsume, "none" if it is free
    link,             \* fd, betterFd and rttTestResult of the uplink
    linkThread,       \* where uplink_mainloop of the uplink is
    altThread,        \* where altservers_main is, and the locals of its pass
    openSocks,        \* the sockets that are open
    removed           \* altservers_removeUplink returned

\* the table of alt servers of the server
VARIABLES
    altServers,       \* altServers[] of altservers.c
    numAltServers,    \* numAltServers of altservers.c
    proxyPrivateOnly, \* _proxyPrivateOnly of the configuration
    lastList          \* the last call of altservers_getListForUplink

\* the hash blocks of an image that is replicated
VARIABLES
    hbMap,            \* image->cache_map of the image
    hbLock,           \* the holder of image->lock, "none" if it is free
    hbCrc,            \* image->crc32 is not NULL
    marker            \* where image_updateCachemap( set ) of the uplink thread is

\* image_getOrLoad of a proxy
VARIABLES
    localRids,        \* the revisions of the one image name that are loaded
    lastLoad          \* the last call of image_getOrLoad

\* the FUSE client
VARIABLES
    requests,         \* the list requests.head .. requests.tail, head first
    switchQueue,      \* the list that switchConnection took and did not enqueue again yet
    connSockFd,       \* connection.sockFd
    onWire,           \* the handles that are asked for on connection.sockFd
    handed,           \* the requests that were handed to connection_read
    fuseReplies,      \* how many fuse replies each request got
    requeued          \* the requests that switchConnection enqueued again

startVars == <<imgUplink, imgMap, initLock, starter, workers, cloner, starts, assertFailed,
               ndebug>>

getVars == <<regList, objName, objRid, objUsers, listLock, objLock, caller, gets>>

probeVars == <<altRtt, bestCount, currentServer, sockFd, lastPass, scenario, passes, switches,
               crashed>>

lockVars == <<holder, routine, at, running>>

workVars == <<chkList, chkNum, chkAlive, chkWorking, chkReadFd, chkUsers, lastGet>>

integrityVars == <<checkQueue, integrityQueueLen, bRunning, checker, hashDone, lastCheck,
                   lastClear>>

rttVars == <<pending, consumeLock, link, linkThread, altThread, openSocks, removed>>

listVars == <<altServers, numAltServers, proxyPrivateOnly, lastList>>

hashVars == <<hbMap, hbLock, hbCrc, marker>>

loadVars == <<localRids, lastLoad>>

fuseVars == <<requests, switchQueue, connSockFd, onWire, handed, fuseReplies, requeued>>

lastVars == <<listVars, hashVars, loadVars, fuseVars>>

laterVars == <<workVars, integrityVars, rttVars, lastVars>>

restVars == <<startVars, getVars, probeVars, lockVars, laterVars>>

vars == <<mapVars, regVars, upVars, workload, restVars>>

\* the variables that the cache-map operations on one image leave alone
notMapVars == <<regVars, upVars, workload, restVars>>

\* the variables that the registry operations leave alone
notRegVars == <<mapVars, upVars, workload, restVars>>

\* the variables that the uplink leaves alone: all but cache_map
notUpVars == <<virtualFilesize, mark, lastOp, presents, notPresents, phase, regVars, workload,
               restVars>>

\* the variables that the start of an uplink leaves alone
notStartVars == <<mapVars, regVars, upVars, workload, getVars, probeVars, lockVars, laterVars>>

\* the variables that image_get on a registry with any content leaves alone
notGetVars == <<mapVars, regVars, upVars, workload, startVars, probeVars, lockVars, laterVars>>

\* the variables that the client's alt-server probing leaves alone
notProbeVars == <<mapVars, regVars, upVars, workload, startVars, getVars, lockVars, laterVars>>

\* the variables that taking and releasing locks leaves alone
notLockVars == <<mapVars, regVars, upVars, workload, startVars, getVars, probeVars, laterVars>>

\* the variables of the sections above
firstVars == <<mapVars, regVars, upVars, workload, startVars, getVars, probeVars, lockVars>>

\* the variables that image_get with its check of the image leaves alone
notWorkVars == <<firstVars, integrityVars, rttVars, lastVars>>

\* the variables that the integrity checker leaves alone
notIntegrityVars == <<firstVars, workVars, rttVars, lastVars>>

\* the variables that the RTT measurements leave alone
notRttVars == <<firstVars, workVars, integrityVars, lastVars>>

notLastVars == <<firstVars, workVars, integrityVars, rttVars>>

notListVars == <<hashVars, loadVars, fuseVars, notLastVars>>

notHashVars == <<listVars, loadVars, fuseVars, notLastVars>>

notLoadVars == <<listVars, hashVars, fuseVars, notLastVars>>

notFuseVars == <<listVars, hashVars, loadVars, notLastVars>>

\* a cache_map pointer that is NULL: the map with no bytes
NULL == [y \in {} |-> 0]

-----------------------------------------------------------------------------
(* Cache map: bits and bytes                                               *)

\* 4 KiB block: pos >> 12 is the block number, pos >> 15 the map byte
DNBD3_BLOCK_SIZE == 4096

BITS_PER_BYTE == 8

RECURSIVE Pow2(_)
Pow2(n) == IF n = 0 THEN 1 ELSE 2 * Pow2(n - 1)

\* (byte & (1 << x)) != 0
BitIsSet(byte, x) == (byte \div Pow2(x)) % 2 = 1

\* byte | (1 << x)
OrBit(byte, x) == IF BitIsSet(byte, x) THEN byte ELSE byte + Pow2(x)

\* byte & ~(1 << x)
AndNotBit(byte, x) == IF BitIsSet(byte, x) THEN byte - Pow2(x) ELSE byte

\* x & ~(DNBD3_BLOCK_SIZE - 1)
AlignDown(x) == (x \div DNBD3_BLOCK_SIZE) * DNBD3_BLOCK_SIZE

\* (x + DNBD3_BLOCK_SIZE - 1) & ~(DNBD3_BLOCK_SIZE - 1)
AlignUp(x) == AlignDown(x + DNBD3_BLOCK_SIZE - 1)

\* IMGSIZE_TO_MAPBYTES: ceil(virtualSize / (8 * 4 KiB))
IMGSIZE_TO_MAPBYTES(size) ==
    (size + (BITS_PER_BYTE * DNBD3_BLOCK_SIZE) - 1) \div (BITS_PER_BYTE * DNBD3_BLOCK_SIZE)

\* malloc + memset( map, value, byteSize )
FilledMap(size, value) == [y \in 0 .. IMGSIZE_TO_MAPBYTES(size) - 1 |-> value]

\* the while loop of image_updateCachemap over pos in [start, end)
RECURSIVE MarkLoop(_, _, _, _)
MarkLoop(map, pos, end, set) ==
    IF pos >= end THEN map
    ELSE LET map_y == pos \div (BITS_PER_BYTE * DNBD3_BLOCK_SIZE)
             map_x == (pos \div DNBD3_BLOCK_SIZE) % BITS_PER_BYTE
             byte  == IF set THEN OrBit(map[map_y], map_x)
                             ELSE AndNotBit(map[map_y], map_x)
         IN  MarkLoop([map EXCEPT ![map_y] = byte], pos + DNBD3_BLOCK_SIZE, end, set)

\* mutant: the start is rounded down also when setting
MarkStart_down(start, set) == AlignDown(start)

\* mutant: the end is rounded up also when setting
MarkEnd_up(end, set) == AlignUp(end)

\* rounding of the range: inwards when setting, outwards when clearing
MarkStart(start, set) == IF set THEN AlignUp(start) ELSE AlignDown(start)

MarkEnd(end, set) == IF set THEN AlignDown(end) ELSE AlignUp(end)

\* mutant: a freed map is allocated again whatever the value of set
image_updateCachemap_realloc(map, size, start, end, set) ==
    LET s == MarkStart(start, set)
        e == MarkEnd(end, set)
    IN  IF s >= e THEN map
        ELSE MarkLoop(IF map = NULL THEN FilledMap(size, 255) ELSE map, s, e, set)

\* image_updateCachemap: the cache map after the call
image_updateCachemap(map, size, start, end, set) ==
    LET s == MarkStart(start, set)
        e == MarkEnd(end, set)
    IN  IF s >= e THEN map
        ELSE IF map = NULL
             THEN IF set THEN map
                  ELSE MarkLoop(FilledMap(size, 255), s, e, set)
             ELSE MarkLoop(map, s, e, set)

\* mask of the valid bits of the last map byte
RECURSIVE LastByteMask(_)
LastByteMask(n) == IF n = 0 THEN 0 ELSE OrBit(LastByteMask(n - 1), n - 1)

\* (byte & mask) == mask
CoversMask(byte, mask) ==
    \A x \in 0 .. BITS_PER_BYTE - 1 : BitIsSet(mask, x) => BitIsSet(byte, x)

\* mutant: the last byte is compared as a whole, unused bits included
MapIsComplete_nomask(map, size) ==
    \A j \in 0 .. IMGSIZE_TO_MAPBYTES(size) - 1 : map[j] = 255

\* the scan of image_isComplete over an allocated map
MapIsComplete(map, size) ==
    LET map_len_bytes == IMGSIZE_TO_MAPBYTES(size)
        blocks_in_last_byte == (size \div DNBD3_BLOCK_SIZE) % BITS_PER_BYTE
        last_byte == IF blocks_in_last_byte = 0 THEN 255
                     ELSE LastByteMask(blocks_in_last_byte)
    IN  /\ \A j \in 0 .. map_len_bytes - 2 : map[j] = 255
        /\ CoversMask(map[map_len_bytes - 1], last_byte)

\* image_isComplete: <<return value, cache map after the call>>
image_isComplete(map, size) ==
    IF size = 0 THEN <<FALSE, map>>
    ELSE IF map = NULL THEN <<TRUE, map>>
    ELSE IF MapIsComplete(map, size) THEN <<TRUE, NULL>>
    ELSE <<FALSE, map>>

-----------------------------------------------------------------------------
(* The cache map of the one image while other parts are looked at        *)

NoMark == [start |-> -1, end |-> -1, set |-> FALSE]

NoOp == [op |-> "none", set |-> FALSE, ret |-> FALSE, nonempty |-> FALSE, changed |-> FALSE]

MapIdle ==
    /\ virtualFilesize = 12288
    /\ cache_map = FilledMap(virtualFilesize, 0)
    /\ mark = NoMark
    /\ lastOp = NoOp
    /\ presents = {}
    /\ notPresents = {}
    /\ phase = "set"

-----------------------------------------------------------------------------
(* Uplink of one image: request queue, uplink thread, RTT verdicts        *)

\* link->queue has SERVER_MAX_UPLINK_QUEUE slots
SERVER_MAX_UPLINK_QUEUE == 2

\* uplink_handle_receive shrinks queueLen only for an index above this
\* number of slots (i > 20 in the source)
TailKeep == 0

Clients == {1, 2}

\* the handles the clients use, and the client that uses each
Handles == {1, 2, 3}

ClientOf(h) == IF h = 3 THEN 2 ELSE 1

\* size of the image that is replicated
UplinkFilesize == 8192

\* the byte ranges <<start, end>> that clients request
Ranges == {<<0, 4096>>, <<0, 8192>>}

\* the workloads: three handles asking for the whole image, or two handles
\* asking for the first block or the whole image
Workloads == {1, 2}

WorkHandles(w) == IF w = 1 THEN Handles ELSE {1, 3}

WorkRanges(w) == IF w = 1 THEN {<<0, 8192>>} ELSE Ranges

\* what write() into the cache file returns for a payload of size bytes
WriteRets(size) == {-1, 0, 4096, size}

ULR_FREE == "ULR_FREE"

ULR_NEW == "ULR_NEW"

ULR_PENDING == "ULR_PENDING"

ULR_PROCESSING == "ULR_PROCESSING"

RTT_IDLE == "RTT_IDLE"

RTT_INPROGRESS == "RTT_INPROGRESS"

RTT_DONTCHANGE == "RTT_DONTCHANGE"

RTT_DOCHANGE == "RTT_DOCHANGE"

RTT_NOT_REACHABLE == "RTT_NOT_REACHABLE"

\* a slot with status ULR_FREE; its other fields are not read before they
\* are written again
FreeSlot == [status |-> ULR_FREE, from |-> 0, to |-> 0, handle |-> 0, client |-> 0]

NoReq == <<>>

NoWrite == [start |-> -1, size |-> 0, lseek |-> FALSE, ret |-> 0]

NoOut == [client |-> 0, handle |-> 0, from |-> 0, to |-> 0]

\* the uplink thread in epoll_wait
UpThread(pc) == [pc |-> pc, j |-> 0, i |-> 0, newOnly |-> FALSE, next |-> "wait", out |-> NoOut]

\* uplink_init, and the start of uplink_mainloop
UplinkInit ==
    /\ queue = [i \in 0 .. SERVER_MAX_UPLINK_QUEUE - 1 |-> FreeSlot]
    /\ queueLen = 0
    /\ fd = -1
    /\ betterFd = -1
    /\ sockets = {}
    /\ inflight = {}
    /\ rttTestResult = RTT_IDLE
    /\ shutdown = FALSE
    /\ serverShutdown = FALSE
    /\ signal = FALSE
    /\ up = UpThread("wait")
    /\ wr = NoWrite
    /\ req = [h \in Handles |-> NoReq]
    /\ connected = [c \in Clients |-> TRUE]
    /\ lastReq = "none"
    /\ badReply = FALSE

----
\* the scan of uplink_request over queue[i .. len-1]: <<freeSlot, foundExisting>>
RECURSIVE RequestScan(_, _, _, _, _, _)
RequestScan(q, len, i, freeSlot, start, end) ==
    IF i >= len THEN <<freeSlot, -1>>
    ELSE LET fs == IF freeSlot = -1 /\ q[i].status = ULR_FREE THEN i ELSE freeSlot
         IN  IF q[i].status # ULR_PENDING /\ q[i].status # ULR_NEW
             THEN RequestScan(q, len, i + 1, fs, start, end)
             ELSE IF q[i].from <= start /\ q[i].to >= end THEN <<fs, i>>
             ELSE RequestScan(q, len, i + 1, fs, start, end)

\* the number of slots of the array link->queue[] at hand, which is
\* SERVER_MAX_UPLINK_QUEUE
QueueSlots(q) == Cardinality(DOMAIN q)

\* the mutant takes a free slot wherever it is
Appends_nofree(freeSlot, foundExisting) == freeSlot = -1

\* line 671: the request is appended at queueLen if there is no free slot
\* or the free slot lies before the entry that covers the request
Appends(freeSlot, foundExisting) == freeSlot = -1 \/ freeSlot < foundExisting

\* the mutant appends without looking at queueLen
uplink_request_nolimit(q, len, client, handle, start, length) ==
    LET end == start + length
        s == RequestScan(q, len, 0, -1, start, end)
        append == Appends(s[1], s[2])
        slot == IF append THEN len ELSE s[1]
    IN  IF slot \notin DOMAIN q
        THEN [ret |-> TRUE, queue |-> q, queueLen |-> len + 1, signal |-> s[2] = -1]
        ELSE [ret |-> TRUE,
              queue |-> [q EXCEPT ![slot] = [status |-> IF s[2] = -1 THEN ULR_NEW ELSE ULR_PENDING,
                                             from |-> start, to |-> end, handle |-> handle,
                                             client |-> client]],
              queueLen |-> IF append THEN len + 1 ELSE len,
              signal |-> s[2] = -1]

\* uplink_request, lines 659-694, on a link that exists: the return value,
\* the queue after it, and whether the uplink thread is woken up
uplink_request(q, len, client, handle, start, length) ==
    LET end == start + length
        s == RequestScan(q, len, 0, -1, start, end)
        append == Appends(s[1], s[2])
        slot == IF append THEN len ELSE s[1]
    IN  IF append /\ len >= QueueSlots(q)
        THEN [ret |-> FALSE, queue |-> q, queueLen |-> len, signal |-> FALSE]
        ELSE [ret |-> TRUE,
              queue |-> [q EXCEPT ![slot] = [status |-> IF s[2] = -1 THEN ULR_NEW ELSE ULR_PENDING,
                                             from |-> start, to |-> end, handle |-> handle,
                                             client |-> client]],
              queueLen |-> IF append THEN len + 1 ELSE len,
              signal |-> s[2] = -1]

\* a client asks for a range that is not in the cache: uplink_request
ClientRequest(h, r) ==
    /\ h \in WorkHandles(workload)
    /\ r \in WorkRanges(workload)
    /\ connected[ClientOf(h)]
    /\ req[h] = NoReq
    /\ IF shutdown
       THEN /\ lastReq' = "false"
            /\ UNCHANGED <<queue, queueLen, signal, req>>
       ELSE LET res == uplink_request(queue, queueLen, ClientOf(h), h, r[1], r[2] - r[1])
            IN  /\ queue' = res.queue
                /\ queueLen' = res.queueLen
                /\ signal' = (signal \/ res.signal)
                /\ req' = IF res.ret THEN [req EXCEPT ![h] = r] ELSE req
                /\ lastReq' = IF res.ret THEN "true" ELSE "false"
    /\ UNCHANGED <<fd, betterFd, sockets, inflight, rttTestResult, shutdown, serverShutdown,
                   up, wr, connected, badReply, cache_map>>
    /\ UNCHANGED notUpVars

\* a client goes away: uplink_removeClient if the image has an uplink. The
\* send mutex of the client is held by the uplink thread during writev
ClientGone(c) ==
    /\ connected[c]
    /\ ~(up.pc = "writev" /\ up.out.client = c)
    /\ connected' = [connected EXCEPT ![c] = FALSE]
    /\ req' = [h \in Handles |-> IF ClientOf(h) = c THEN NoReq ELSE req[h]]
    /\ queue' = IF shutdown THEN queue
                ELSE [i \in DOMAIN queue |->
                        IF i < queueLen /\ queue[i].client = c THEN FreeSlot ELSE queue[i]]
    /\ UNCHANGED <<queueLen, fd, betterFd, sockets, inflight, rttTestResult, shutdown,
                   serverShutdown, signal, up, wr, lastReq, badReply, cache_map>>
    /\ UNCHANGED notUpVars

----
\* while ( !_shutdown && !link->shutdown ), and the same test after epoll_wait
Stopping == shutdown \/ serverShutdown

\* closing a socket: it is no longer open, what was in flight on it is lost
Close(socks, s) == socks \ {s}

\* epoll_wait returned for link->signal, lines 768-781: the wake-ups are
\* read, new requests are sent if there is a connection
MainloopSignal ==
    /\ up.pc = "wait"
    /\ ~Stopping
    /\ signal
    /\ signal' = FALSE
    /\ up' = IF fd # -1
             THEN [up EXCEPT !.pc = "send", !.j = 0, !.newOnly = TRUE, !.next = "post"]
             ELSE [up EXCEPT !.pc = "post"]
    /\ UNCHANGED <<queue, queueLen, fd, betterFd, sockets, inflight, rttTestResult, shutdown,
                   serverShutdown, wr, req, connected, lastReq, badReply, cache_map>>
    /\ UNCHANGED notUpVars

\* epoll_wait timed out
MainloopTimeout ==
    /\ up.pc = "wait"
    /\ ~Stopping
    /\ up' = [up EXCEPT !.pc = "post"]
    /\ UNCHANGED <<queue, queueLen, fd, betterFd, sockets, inflight, rttTestResult, shutdown,
                   serverShutdown, signal, wr, req, connected, lastReq, badReply, cache_map>>
    /\ UNCHANGED notUpVars

\* the mutant takes ULR_NEW slots only, whatever newOnly says
RECURSIVE SendNext_new(_, _, _, _)
SendNext_new(q, len, j, newOnly) ==
    IF j >= len THEN -1
    ELSE IF q[j].status # ULR_NEW THEN SendNext_new(q, len, j + 1, newOnly)
         ELSE j

\* the next slot at or after j that uplink_send_requests sends, -1 if none
RECURSIVE SendNext(_, _, _, _)
SendNext(q, len, j, newOnly) ==
    IF j >= len THEN -1
    ELSE IF q[j].status # ULR_NEW /\ (newOnly \/ q[j].status # ULR_PENDING)
         THEN SendNext(q, len, j + 1, newOnly)
         ELSE j

\* what uplink_send_requests writes for a slot: offset and offset + size
SentRange(e) == <<e.from, e.from + (e.to - e.from)>>

\* uplink_send_requests, lines 895-921: one round of the loop, up to the
\* write to link->fd (ok: the whole request was written)
SendRequests(ok) ==
    /\ up.pc = "send"
    /\ LET j == SendNext(queue, queueLen, up.j, up.newOnly)
       IN  IF j = -1
           THEN /\ up' = [up EXCEPT !.pc = up.next, !.j = 0, !.newOnly = FALSE, !.next = "wait"]
                /\ UNCHANGED <<queue, inflight>>
           ELSE /\ queue' = [queue EXCEPT ![j].status = ULR_PENDING]
                /\ inflight' = IF ok /\ fd # -1 THEN inflight \cup {SentRange(queue[j])} ELSE inflight
                /\ up' = [up EXCEPT !.j = j + 1]
    /\ UNCHANGED <<queueLen, fd, betterFd, sockets, rttTestResult, shutdown, serverShutdown,
                   signal, wr, req, connected, lastReq, badReply, cache_map>>
    /\ UNCHANGED notUpVars

\* uplink_handle_receive runs: epoll_wait returned for link->fd, or the
\* for (;;) loop of uplink_handle_receive comes round again
Receiving == (up.pc = "wait" /\ ~Stopping /\ fd # -1) \/ up.pc = "recv"

\* after uplink_handle_receive, line 784
AfterReceive == IF Stopping THEN "cleanup" ELSE "post"

\* uplink_handle_receive, lines 931-984: the reply to the request r is
\* read, lseek works or not, write() returns ret
ReceiveReply(r, lseekOk, ret) ==
    /\ Receiving
    /\ r \in inflight
    /\ inflight' = inflight \ {r}
    /\ wr' = [start |-> r[1], size |-> r[2] - r[1], lseek |-> lseekOk, ret |-> IF lseekOk THEN ret ELSE 0]
    /\ up' = [up EXCEPT !.pc = "written"]
    /\ UNCHANGED <<queue, queueLen, fd, betterFd, sockets, rttTestResult, shutdown, serverShutdown,
                   signal, req, connected, lastReq, badReply, cache_map>>
    /\ UNCHANGED notUpVars

\* recv fails or the server hung up: error_cleanup, lines 1022-1025
ReceiveError ==
    /\ Receiving
    /\ fd # -1
    /\ fd' = -1
    /\ sockets' = Close(sockets, fd)
    /\ inflight' = {}
    /\ up' = [up EXCEPT !.pc = AfterReceive]
    /\ UNCHANGED <<queue, queueLen, betterFd, rttTestResult, shutdown, serverShutdown,
                   signal, wr, req, connected, lastReq, badReply, cache_map>>
    /\ UNCHANGED notUpVars

\* recv has nothing more (EAGAIN): uplink_handle_receive returns
ReceiveDone ==
    /\ up.pc = "recv"
    /\ up' = [up EXCEPT !.pc = AfterReceive]
    /\ UNCHANGED <<queue, queueLen, fd, betterFd, sockets, inflight, rttTestResult, shutdown,
                   serverShutdown, signal, wr, req, connected, lastReq, badReply, cache_map>>
    /\ UNCHANGED notUpVars

\* the mutant marks the whole payload as cached
CachedEnd_size(w) == w.start + w.size

\* the end of the range that uplink_handle_receive marks as cached, line 984
CachedEnd(w) == w.start + w.ret

\* the mutant looks at the start of the request only
InsideReply_start(e, start, end) == e.from >= start

\* line 991: the request of a slot lies inside the range of the reply
InsideReply(e, start, end) == e.from >= start /\ e.to <= end

\* lines 980-996: the cache map is updated after the write, then the
\* pending requests inside the reply's range become ULR_PROCESSING
ReceiveMark ==
    /\ up.pc = "written"
    /\ cache_map' = IF wr.lseek /\ wr.ret > 0
                    THEN image_updateCachemap(cache_map, virtualFilesize, wr.start, CachedEnd(wr), TRUE)
                    ELSE cache_map
    /\ queue' = [i \in DOMAIN queue |->
                   IF /\ i < queueLen
                      /\ queue[i].status = ULR_PENDING
                      /\ InsideReply(queue[i], wr.start, wr.start + wr.size)
                   THEN [queue[i] EXCEPT !.status = ULR_PROCESSING]
                   ELSE queue[i]]
    /\ wr' = NoWrite
    /\ up' = [up EXCEPT !.pc = "reply", !.i = queueLen - 1]
    /\ UNCHANGED <<queueLen, fd, betterFd, sockets, inflight, rttTestResult, shutdown,
                   serverShutdown, signal, req, connected, lastReq, badReply>>
    /\ UNCHANGED notUpVars

\* the mutant answers the slots that are ULR_PENDING as well
RECURSIVE ReplyNext_pending(_, _)
ReplyNext_pending(q, i) ==
    IF i < 0 THEN -1
    ELSE IF q[i].status \in {ULR_PROCESSING, ULR_PENDING} THEN i
    ELSE ReplyNext_pending(q, i - 1)

\* the next slot at or below i with status ULR_PROCESSING, -1 if none
RECURSIVE ReplyNext(_, _)
ReplyNext(q, i) ==
    IF i < 0 THEN -1
    ELSE IF q[i].status = ULR_PROCESSING THEN i
    ELSE ReplyNext(q, i - 1)

\* the mutant answers with the offset of the request as the handle
OutReply_offset(e) == [client |-> e.client, handle |-> e.from, from |-> e.from, to |-> e.to]

\* the reply for a slot, lines 1002-1010
OutReply(e) == [client |-> e.client, handle |-> e.handle, from |-> e.from, to |-> e.to]

\* lines 998-1014: the next ULR_PROCESSING slot is freed, its reply is
\* prepared, the queue lock is dropped
ReceiveSend ==
    /\ up.pc = "reply"
    /\ LET i == ReplyNext(queue, up.i)
       IN  IF i = -1
           THEN /\ up' = [up EXCEPT !.pc = "recv", !.i = 0]
                /\ UNCHANGED queue
           ELSE /\ queue' = [queue EXCEPT ![i] = FreeSlot]
                /\ up' = [up EXCEPT !.pc = "writev", !.i = i, !.out = OutReply(queue[i])]
    /\ UNCHANGED <<queueLen, fd, betterFd, sockets, inflight, rttTestResult, shutdown,
                   serverShutdown, signal, wr, req, connected, lastReq, badReply, cache_map>>
    /\ UNCHANGED notUpVars

\* lines 1015-1018: writev to the client, the queue lock is taken again,
\* the queue shrinks if the answered slot is the last one
ReceiveWritev ==
    /\ up.pc = "writev"
    /\ LET o == up.out
           known == o.handle \in Handles
           awaited == known /\ ClientOf(o.handle) = o.client /\ req[o.handle] = <<o.from, o.to>>
       IN  /\ req' = IF awaited THEN [req EXCEPT ![o.handle] = NoReq] ELSE req
           /\ badReply' = (badReply \/ ~awaited)
    /\ queueLen' = IF up.i > TailKeep /\ up.i = queueLen - 1 THEN queueLen - 1 ELSE queueLen
    /\ up' = [up EXCEPT !.pc = "reply", !.i = up.i - 1, !.out = NoOut]
    /\ UNCHANGED <<queue, fd, betterFd, sockets, inflight, rttTestResult, shutdown,
                   serverShutdown, signal, wr, connected, lastReq, cache_map>>
    /\ UNCHANGED notUpVars

----
\* the loop condition fails, or epoll_wait returned and a shutdown flag is
\* set (line 742): goto cleanup
MainloopStop ==
    /\ up.pc = "wait"
    /\ Stopping
    /\ up' = [up EXCEPT !.pc = "cleanup"]
    /\ UNCHANGED <<queue, queueLen, fd, betterFd, sockets, inflight, rttTestResult, shutdown,
                   serverShutdown, signal, wr, req, connected, lastReq, badReply, cache_map>>
    /\ UNCHANGED notUpVars

\* the mutant keeps the old socket and forgets the new one
AdoptFd_keep(old, better) == IF old # -1 THEN old ELSE better

\* link->fd = link->betterFd, line 802
AdoptFd(old, better) == better

\* the socket that is closed on a server change, lines 801-803
ClosedOnChange(old, better) == IF AdoptFd(old, better) = old THEN better ELSE old

\* lines 796-821: the RTT check says RTT_DOCHANGE. The old socket is closed,
\* betterFd becomes fd, all requests are sent again (uplink_send_requests
\* with newOnly FALSE comes next)
MainloopChange ==
    /\ up.pc = "post"
    /\ rttTestResult = RTT_DOCHANGE
    /\ rttTestResult' = RTT_IDLE
    /\ fd' = AdoptFd(fd, betterFd)
    /\ sockets' = Close(sockets, ClosedOnChange(fd, betterFd))
    /\ inflight' = IF fd' = fd THEN inflight ELSE {}
    /\ betterFd' = -1
    /\ up' = [up EXCEPT !.pc = "send", !.j = 0, !.newOnly = FALSE, !.next = "wait"]
    /\ UNCHANGED <<queue, queueLen, shutdown, serverShutdown, signal, wr, req, connected,
                   lastReq, badReply, cache_map>>
    /\ UNCHANGED notUpVars

\* lines 823-863: no server change. If a check is due: the thread ends when
\* the image is complete and the image lock is free (locked), else an RTT
\* measurement is asked for and a keep-alive is sent (ka: it was sent)
MainloopRtt(due, locked, ka) ==
    /\ up.pc = "post"
    /\ rttTestResult # RTT_DOCHANGE
    /\ IF due /\ rttTestResult \in {RTT_IDLE, RTT_DONTCHANGE}
       THEN LET c == image_isComplete(cache_map, virtualFilesize)
            IN  IF c[1]
                THEN /\ cache_map' = c[2]
                     /\ shutdown' = (shutdown \/ locked)
                     /\ up' = [up EXCEPT !.pc = IF locked THEN "cleanup" ELSE "wait"]
                     /\ UNCHANGED <<rttTestResult, fd, sockets, inflight>>
                ELSE /\ rttTestResult' = RTT_INPROGRESS
                     /\ fd' = IF ka THEN fd ELSE -1
                     /\ sockets' = IF ka THEN sockets ELSE Close(sockets, fd)
                     /\ inflight' = IF ka THEN inflight ELSE {}
                     /\ up' = [up EXCEPT !.pc = "wait"]
                     /\ UNCHANGED <<cache_map, shutdown>>
       ELSE /\ up' = [up EXCEPT !.pc = "wait"]
            /\ UNCHANGED <<rttTestResult, fd, sockets, inflight, cache_map, shutdown>>
    /\ UNCHANGED <<queue, queueLen, betterFd, serverShutdown, signal, wr, req, connected,
                   lastReq, badReply>>
    /\ UNCHANGED notUpVars

\* cleanup, lines 879-893: the sockets are closed once no RTT measurement
\* is in progress, the thread ends
MainloopCleanup ==
    /\ up.pc = "cleanup"
    /\ rttTestResult # RTT_INPROGRESS
    /\ fd' = -1
    /\ betterFd' = -1
    /\ sockets' = {}
    /\ inflight' = {}
    /\ signal' = FALSE
    /\ up' = UpThread("done")
    /\ UNCHANGED <<queue, queueLen, rttTestResult, shutdown, serverShutdown, wr, req,
                   connected, lastReq, badReply, cache_map>>
    /\ UNCHANGED notUpVars

\* altservers_main, the verdict of an RTT measurement (altservers.c lines
\* 561-592): a better server, no reachable server, or stay
RttVerdict(v) ==
    /\ rttTestResult = RTT_INPROGRESS
    /\ rttTestResult' = v
    /\ IF v = RTT_DOCHANGE
       THEN LET s == CHOOSE x \in {1, 2} : x \notin sockets
            IN  /\ betterFd' = s
                /\ sockets' = sockets \cup {s}
                /\ signal' = TRUE
       ELSE UNCHANGED <<betterFd, sockets, signal>>
    /\ UNCHANGED <<queue, queueLen, fd, inflight, shutdown, serverShutdown, up, wr, req,
                   connected, lastReq, badReply, cache_map>>
    /\ UNCHANGED notUpVars

\* the server is told to stop: _shutdown = true
ServerShutdown ==
    /\ ~serverShutdown
    /\ serverShutdown' = TRUE
    /\ UNCHANGED <<queue, queueLen, fd, betterFd, sockets, inflight, rttTestResult, shutdown,
                   signal, up, wr, req, connected, lastReq, badReply, cache_map>>
    /\ UNCHANGED notUpVars

\* uplink_shutdown, lines 609-625, called by image_free when no client
\* uses the image any more
UplinkShutdown ==
    /\ ~shutdown
    /\ \A c \in Clients : ~connected[c]
    /\ shutdown' = TRUE
    /\ signal' = (up.pc # "done")
    /\ UNCHANGED <<queue, queueLen, fd, betterFd, sockets, inflight, rttTestResult,
                   serverShutdown, up, wr, req, connected, lastReq, badReply, cache_map>>
    /\ UNCHANGED notUpVars

UplinkNext ==
    \/ \E h \in Handles, r \in Ranges : ClientRequest(h, r)
    \/ \E c \in Clients : ClientGone(c)
    \/ MainloopSignal
    \/ MainloopTimeout
    \/ \E ok \in BOOLEAN : SendRequests(ok)
    \/ \E r \in Ranges, lseekOk \in BOOLEAN : \E ret \in WriteRets(r[2] - r[1]) :
          ReceiveReply(r, lseekOk, ret)
    \/ ReceiveError
    \/ ReceiveDone
    \/ ReceiveMark
    \/ ReceiveSend
    \/ ReceiveWritev
    \/ MainloopStop
    \/ MainloopChange
    \/ \E due, locked, ka \in BOOLEAN : MainloopRtt(due, locked, ka)
    \/ MainloopCleanup
    \/ \E v \in {RTT_DOCHANGE, RTT_DONTCHANGE, RTT_NOT_REACHABLE} : RttVerdict(v)
    \/ ServerShutdown
    \/ UplinkShutdown

-----------------------------------------------------------------------------
(* Image registry and reference counting                                   *)

\* image objects, by their unique id (image->id); 0 stands for NULL
Images == {1, 2}

\* threads that call into the registry
Threads == {1, 2}

\* slots of _images[] in use at start: one per image
NumSlots == Cardinality(Images)

\* a thread holds at most MaxRefs references to one image
MaxRefs == 1

\* image->name and image->rid of the image objects
imgName == [img \in Images |-> "a"]

imgRid == [img \in Images |-> img]

\* image->atime of the image objects
imgAtime == [img \in Images |-> img]

\* names and revisions asked for by image_get
Names == {"a"}

Revisions == {0, 1, 2}

NoRefs == [img \in Images |-> 0]

\* a thread that is in no registry function
Idle(refs) ==
    [pc |-> "idle", img |-> 0, i |-> 0, ret |-> "idle", res |-> 0, oldest |-> 0,
     inEds |-> FALSE, refs |-> refs]

NoRelease == [img |-> 0, t |-> 0, before |-> 0, after |-> 0, listed |-> FALSE, freed |-> FALSE]

RegInit ==
    /\ images = [i \in 0 .. NumSlots - 1 |-> i + 1]
    /\ num_images = NumSlots
    /\ users = [img \in Images |-> 0]
    /\ freeCount = [img \in Images |-> 0]
    /\ freedInUse = [img \in Images |-> FALSE]
    /\ imageListLock = 0
    /\ imgLock = [img \in Images |-> 0]
    /\ reloadLock = 0
    /\ th = [t \in Threads |-> Idle(NoRefs)]
    /\ lastRelease = NoRelease

\* the image is in _images[0 .. _num_images - 1]
InList(imgs, n, img) == \E i \in 0 .. n - 1 : imgs[i] = img

\* references to img that were taken and not yet released
Holders(img) == {t \in Threads : th[t].refs[img] > 0}

\* the mutant keeps the candidate with the lower rid
RECURSIVE ScanImages_lower(_, _, _, _, _, _, _, _)
ScanImages_lower(imgs, nameOf, ridOf, n, i, name, revision, candidate) ==
    IF i >= n THEN candidate
    ELSE LET image == imgs[i]
         IN  IF image = 0 \/ nameOf[image] # name
             THEN ScanImages_lower(imgs, nameOf, ridOf, n, i + 1, name, revision, candidate)
             ELSE IF revision = ridOf[image] THEN image
             ELSE IF revision = 0 /\ (candidate = 0 \/ ridOf[candidate] > ridOf[image])
                  THEN ScanImages_lower(imgs, nameOf, ridOf, n, i + 1, name, revision, image)
                  ELSE ScanImages_lower(imgs, nameOf, ridOf, n, i + 1, name, revision, candidate)

\* the scan of image_get, lines 254-263, over _images[i .. n-1] whose
\* objects have the names nameOf and the revisions ridOf: the candidate, 0
\* if none
RECURSIVE ScanImages(_, _, _, _, _, _, _, _)
ScanImages(imgs, nameOf, ridOf, n, i, name, revision, candidate) ==
    IF i >= n THEN candidate
    ELSE LET image == imgs[i]
         IN  IF image = 0 \/ nameOf[image] # name
             THEN ScanImages(imgs, nameOf, ridOf, n, i + 1, name, revision, candidate)
             ELSE IF revision = ridOf[image] THEN image
             ELSE IF revision = 0 /\ (candidate = 0 \/ ridOf[candidate] < ridOf[image])
                  THEN ScanImages(imgs, nameOf, ridOf, n, i + 1, name, revision, image)
                  ELSE ScanImages(imgs, nameOf, ridOf, n, i + 1, name, revision, candidate)

\* the scan of image_get over _images[i .. n-1]: the candidate, 0 if none
GetCandidate(imgs, n, i, name, revision, candidate) ==
    ScanImages(imgs, imgName, imgRid, n, i, name, revision, candidate)

\* the value of image->users that a thread reads: the counter of a live
\* object, any value once the object was freed (dangling pointer)
UsersRead(img) == IF freeCount[img] = 0 THEN {users[img]} ELSE 0 .. 2

\* a function returns to its caller: idle, or the next step of image_ensureDiskSpace
Return(t, res, refs) ==
    IF th[t].inEds
    THEN [th[t] EXCEPT !.pc = th[t].ret, !.res = res, !.refs = refs]
    ELSE Idle(refs)

----
\* image_get, lines 243-273: find the candidate under imageListLock
GetStart(t, name, revision) ==
    /\ th[t].pc = "idle"
    /\ imageListLock = 0
    /\ LET candidate == GetCandidate(images, num_images, 0, name, revision, 0)
       IN  /\ candidate # 0
           /\ th[t].refs[candidate] < MaxRefs
           /\ imageListLock' = t
           /\ th' = [th EXCEPT ![t].pc = "get_locked", ![t].img = candidate]
    /\ UNCHANGED <<images, num_images, users, freeCount, freedInUse, imgLock, reloadLock, lastRelease>>
    /\ UNCHANGED notRegVars

\* image_lock, lines 394-410: find the image under imageListLock
LockStart(t, img) ==
    /\ th[t].pc = "idle" \/ th[t].pc = "call_lock"
    /\ th[t].pc = "call_lock" => img = th[t].img
    /\ th[t].refs[img] < MaxRefs
    /\ imageListLock = 0
    /\ IF InList(images, num_images, img)
       THEN /\ imageListLock' = t
            /\ th' = [th EXCEPT ![t].pc = "get_locked", ![t].img = img]
       ELSE /\ th[t].pc = "call_lock"
            /\ th' = [th EXCEPT ![t] = Return(t, 0, th[t].refs)]
            /\ UNCHANGED imageListLock
    /\ UNCHANGED <<images, num_images, users, freeCount, freedInUse, imgLock, reloadLock, lastRelease>>
    /\ UNCHANGED notRegVars

\* mutex_lock( &candidate->lock ); mutex_unlock( &imageListLock );
RefLockImage(t) ==
    /\ th[t].pc = "get_locked"
    /\ imgLock[th[t].img] = 0
    /\ imgLock' = [imgLock EXCEPT ![th[t].img] = t]
    /\ imageListLock' = 0
    /\ th' = [th EXCEPT ![t].pc = "get_inc"]
    /\ UNCHANGED <<images, num_images, users, freeCount, freedInUse, reloadLock, lastRelease>>
    /\ UNCHANGED notRegVars

\* candidate->users++; mutex_unlock( &candidate->lock );
RefInc(t) ==
    /\ th[t].pc = "get_inc"
    /\ LET img == th[t].img
       IN  /\ users' = [users EXCEPT ![img] = @ + 1]
           /\ imgLock' = [imgLock EXCEPT ![img] = 0]
           /\ th' = [th EXCEPT ![t] = Return(t, img, [th[t].refs EXCEPT ![img] = @ + 1])]
    /\ UNCHANGED <<images, num_images, freeCount, freedInUse, imageListLock, reloadLock, lastRelease>>
    /\ UNCHANGED notRegVars

----
\* image_release, lines 418-444: mutex_lock( &imageListLock )
ReleaseStart(t, img) ==
    /\ th[t].pc = "idle" \/ th[t].pc = "call_release"
    /\ th[t].pc = "call_release" => img = th[t].img
    /\ th[t].refs[img] > 0
    /\ imageListLock = 0
    /\ imageListLock' = t
    /\ th' = [th EXCEPT ![t].pc = "rel_locked", ![t].img = img]
    /\ UNCHANGED <<images, num_images, users, freeCount, freedInUse, imgLock, reloadLock, lastRelease>>
    /\ UNCHANGED notRegVars

\* image->users--, the search in _images[], mutex_unlock( &imageListLock )
ReleaseDec(t) ==
    /\ th[t].pc = "rel_locked"
    /\ LET img == th[t].img
           refs == [th[t].refs EXCEPT ![img] = @ - 1]
       IN  /\ imgLock[img] = 0
           /\ \E u \in UsersRead(img) :
                LET inUse == (u - 1) # 0
                    listed == InList(images, num_images, img)
                    free == ~inUse /\ ~listed
                IN  /\ users' = [users EXCEPT ![img] = u - 1]
                    /\ lastRelease' = [img |-> img, t |-> t, before |-> u, after |-> u - 1,
                                       listed |-> listed, freed |-> free]
                    /\ th' = [th EXCEPT ![t] =
                                 IF free THEN [th[t] EXCEPT !.pc = "free", !.refs = refs]
                                 ELSE Return(t, 0, refs)]
    /\ imageListLock' = 0
    /\ UNCHANGED <<images, num_images, freeCount, freedInUse, imgLock, reloadLock>>
    /\ UNCHANGED notRegVars

\* image_free, lines 601-625, called by image_release, image_remove,
\* image_loadAll or image_tryFreeAll
ImageFree(t) ==
    /\ th[t].pc \in {"free", "la_free", "tfa_free"}
    /\ LET img == th[t].img
       IN  /\ imgLock[img] = 0
           /\ freeCount[img] < 2
           /\ freeCount' = [freeCount EXCEPT ![img] = @ + 1]
           /\ freedInUse' = [freedInUse EXCEPT ![img] = @ \/ (freeCount[img] = 0 /\ users[img] > 0)]
           /\ th' = [th EXCEPT ![t] =
                        IF th[t].pc = "free" THEN Return(t, 0, th[t].refs)
                        ELSE IF th[t].pc = "la_free" THEN [th[t] EXCEPT !.pc = "la_relock", !.img = 0]
                        ELSE [th[t] EXCEPT !.pc = "tfa_relock", !.img = 0]]
    /\ UNCHANGED <<images, num_images, users, imageListLock, imgLock, reloadLock, lastRelease>>
    /\ UNCHANGED notRegVars

----
\* the loop of image_remove over i = _num_images - 1 .. 0: <<_images, _num_images>>
RECURSIVE RemoveLoop(_, _, _, _)
RemoveLoop(imgs, n, i, img) ==
    IF i < 0 THEN <<imgs, n>>
    ELSE LET imgs2 == IF imgs[i] = img THEN [imgs EXCEPT ![i] = 0] ELSE imgs
             n2 == IF imgs2[i] = 0 /\ i + 1 = n THEN n - 1 ELSE n
         IN  RemoveLoop(imgs2, n2, i - 1, img)

\* image_remove, lines 469-485, called on an image the caller holds a
\* reference to (image_get line 285, image_load line 865, image_ensureDiskSpace)
RemoveStart(t, img) ==
    /\ th[t].pc = "idle" \/ th[t].pc = "call_remove"
    /\ th[t].pc = "call_remove" => img = th[t].img
    /\ th[t].refs[img] > 0
    /\ imageListLock = 0
    /\ imageListLock' = t
    /\ th' = [th EXCEPT ![t].pc = "rem_locked", ![t].img = img]
    /\ UNCHANGED <<images, num_images, users, freeCount, freedInUse, imgLock, reloadLock, lastRelease>>
    /\ UNCHANGED notRegVars

RemoveDo(t) ==
    /\ th[t].pc = "rem_locked"
    /\ LET img == th[t].img
           r == RemoveLoop(images, num_images, num_images - 1, img)
       IN  /\ imgLock[img] = 0
           /\ images' = r[1]
           /\ num_images' = r[2]
           /\ \E u \in UsersRead(img) :
                LET mustFree == InList(images, num_images, img) /\ u = 0
                IN  th' = [th EXCEPT ![t] =
                              IF mustFree THEN [th[t] EXCEPT !.pc = "free"]
                              ELSE Return(t, img, th[t].refs)]
    /\ imageListLock' = 0
    /\ UNCHANGED <<users, freeCount, freedInUse, imgLock, reloadLock, lastRelease>>
    /\ UNCHANGED notRegVars

----
\* the loop of image_tryFreeAll from index i down, under imageListLock:
\* <<found, _images, _num_images, index, image>>
RECURSIVE TryFreeScan(_, _, _)
TryFreeScan(imgs, n, i) ==
    IF i < 0 THEN <<FALSE, imgs, n, i, 0>>
    ELSE IF imgs[i] # 0 /\ users[imgs[i]] = 0
         THEN <<TRUE, [imgs EXCEPT ![i] = 0], n, i, imgs[i]>>
         ELSE TryFreeScan(imgs, IF i + 1 = n /\ imgs[i] = 0 THEN n - 1 ELSE n, i - 1)

TryFreeStep(t, n, i) ==
    LET r == TryFreeScan(images, n, i)
    IN  /\ images' = r[2]
        /\ num_images' = r[3]
        /\ imageListLock' = 0
        /\ th' = [th EXCEPT ![t] =
                     IF r[1] THEN [th[t] EXCEPT !.pc = "tfa_free", !.i = r[4], !.img = r[5]]
                     ELSE Idle(th[t].refs)]

\* image_tryFreeAll, lines 580-595: from mutex_lock( &imageListLock ) to
\* the first image with users == 0, or to the end of the loop
TryFreeAllStart(t) ==
    /\ th[t].pc = "idle"
    /\ imageListLock = 0
    /\ TryFreeStep(t, num_images, num_images - 1)
    /\ UNCHANGED <<users, freeCount, freedInUse, imgLock, reloadLock, lastRelease>>
    /\ UNCHANGED notRegVars

\* mutex_lock( &imageListLock ) after image_free, line 591, next iterations
TryFreeAllRelock(t) ==
    /\ th[t].pc = "tfa_relock"
    /\ imageListLock = 0
    /\ LET i == th[t].i
           n == IF i + 1 = num_images /\ images[i] = 0 THEN num_images - 1 ELSE num_images
       IN  TryFreeStep(t, n, i - 1)
    /\ UNCHANGED <<users, freeCount, freedInUse, imgLock, reloadLock, lastRelease>>
    /\ UNCHANGED notRegVars

----
\* the loop of image_loadAll from index i down to the next used slot:
\* <<found, _num_images, index>>
RECURSIVE LoadAllScan(_, _, _)
LoadAllScan(imgs, n, i) ==
    IF i < 0 THEN <<FALSE, n, i>>
    ELSE IF imgs[i] = 0
         THEN LoadAllScan(imgs, IF i + 1 = n THEN n - 1 ELSE n, i - 1)
         ELSE <<TRUE, n, i>>

\* up to mutex_unlock( &imageListLock ) before file_isReadable, or to the
\* end of the loop (mutex_unlock of both locks)
LoadAllStep(t, imgs, n, i) ==
    LET r == LoadAllScan(imgs, n, i)
    IN  /\ images' = imgs
        /\ num_images' = r[2]
        /\ imageListLock' = 0
        /\ reloadLock' = IF r[1] THEN t ELSE 0
        /\ th' = [th EXCEPT ![t] =
                     IF r[1] THEN [th[t] EXCEPT !.pc = "la_check", !.i = r[3], !.img = imgs[r[3]]]
                     ELSE Idle(th[t].refs)]

\* image_loadAll with _removeMissingImages, lines 523-561
LoadAllStart(t) ==
    /\ th[t].pc = "idle"
    /\ reloadLock = 0
    /\ imageListLock = 0
    /\ LoadAllStep(t, images, num_images, num_images - 1)
    /\ UNCHANGED <<users, freeCount, freedInUse, imgLock, lastRelease>>
    /\ UNCHANGED notRegVars

\* file_isReadable returned ret; lock again, see if the image is still there
LoadAllCheck(t, ret) ==
    /\ th[t].pc = "la_check"
    /\ imageListLock = 0
    /\ LET i == th[t].i
       IN  IF ret \/ i >= num_images \/ images[i] = 0 \/ images[i] # th[t].img
           THEN LoadAllStep(t, images, num_images, i - 1)
           ELSE /\ images' = [images EXCEPT ![i] = 0]
                /\ num_images' = IF i + 1 = num_images THEN num_images - 1 ELSE num_images
                /\ imageListLock' = t
                /\ th' = [th EXCEPT ![t].pc = "la_imglock"]
                /\ UNCHANGED reloadLock
    /\ UNCHANGED <<users, freeCount, freedInUse, imgLock, lastRelease>>
    /\ UNCHANGED notRegVars

\* mutex_lock( &imgHandle->lock ); freeImg = ( imgHandle->users == 0 )
LoadAllImgLock(t) ==
    /\ th[t].pc = "la_imglock"
    /\ imgLock[th[t].img] = 0
    /\ \E u \in UsersRead(th[t].img) :
          IF u = 0
          THEN /\ imageListLock' = 0
               /\ th' = [th EXCEPT ![t].pc = "la_free"]
               /\ UNCHANGED <<images, num_images, reloadLock>>
          ELSE LoadAllStep(t, images, num_images, th[t].i - 1)
    /\ UNCHANGED <<users, freeCount, freedInUse, imgLock, lastRelease>>
    /\ UNCHANGED notRegVars

\* mutex_lock( &imageListLock ) after image_free, next iterations
LoadAllRelock(t) ==
    /\ th[t].pc = "la_relock"
    /\ imageListLock = 0
    /\ LoadAllStep(t, images, num_images, th[t].i - 1)
    /\ UNCHANGED <<users, freeCount, freedInUse, imgLock, lastRelease>>
    /\ UNCHANGED notRegVars

----
\* image_ensureDiskSpace, lines 1677-1736: too little space is available
EnsureDiskSpaceStart(t) ==
    /\ th[t].pc = "idle"
    /\ th[t].refs = NoRefs
    /\ th' = [th EXCEPT ![t].pc = "eds_loop", ![t].inEds = TRUE]
    /\ UNCHANGED <<images, num_images, users, freeCount, freedInUse, imageListLock, imgLock,
                   reloadLock, lastRelease>>
    /\ UNCHANGED notRegVars

\* the search for the least recently used image (_images[] read unlocked),
\* then image_lock( oldest ) unless no image qualifies (stale: atime too young)
EnsureDiskSpaceLoop(t, stale) ==
    /\ th[t].pc = "eds_loop"
    /\ LET i == th[t].i
       IN  th' = [th EXCEPT ![t] =
                IF i < num_images
                THEN IF images[i] = 0 THEN [th[t] EXCEPT !.i = i + 1]
                     ELSE [th[t] EXCEPT !.pc = "call_lock", !.img = images[i], !.ret = "eds_locked"]
                ELSE IF th[t].oldest = 0 \/ ~stale THEN Idle(th[t].refs)
                     ELSE [th[t] EXCEPT !.pc = "call_lock", !.img = th[t].oldest, !.ret = "eds_lock2"]]
    /\ UNCHANGED <<images, num_images, users, freeCount, freedInUse, imageListLock, imgLock,
                   reloadLock, lastRelease>>
    /\ UNCHANGED notRegVars

\* current = image_lock( _images[i] ) returned: users == 1 makes it a candidate
EnsureDiskSpaceLocked(t) ==
    /\ th[t].pc = "eds_locked"
    /\ LET cur == th[t].res
           old == th[t].oldest
       IN  IF cur = 0
           THEN th' = [th EXCEPT ![t].pc = "eds_loop", ![t].i = @ + 1]
           ELSE \E u \in UsersRead(cur) :
                  th' = [th EXCEPT ![t].pc = "call_release", ![t].img = cur, ![t].ret = "eds_released",
                                   ![t].oldest = IF u = 1 /\ (old = 0 \/ imgAtime[cur] <= imgAtime[old])
                                                 THEN cur ELSE old]
    /\ UNCHANGED <<images, num_images, users, freeCount, freedInUse, imageListLock, imgLock,
                   reloadLock, lastRelease>>
    /\ UNCHANGED notRegVars

\* what follows a call made by image_ensureDiskSpace; again: one more of
\* the at most 20 rounds is needed
EnsureDiskSpaceNext(t, again) ==
    /\ th[t].pc \in {"eds_released", "eds_lock2", "eds_removed", "eds_done"}
    /\ LET restart == [th[t] EXCEPT !.pc = "eds_loop", !.i = 0, !.oldest = 0, !.img = 0, !.res = 0]
       IN  th' = [th EXCEPT ![t] =
                CASE th[t].pc = "eds_released" -> [th[t] EXCEPT !.pc = "eds_loop", !.i = @ + 1]
                  [] th[t].pc = "eds_lock2" ->
                        IF th[t].res = 0 THEN restart
                        ELSE [th[t] EXCEPT !.pc = "call_remove", !.img = th[t].oldest, !.ret = "eds_removed"]
                  [] th[t].pc = "eds_removed" ->
                        IF th[t].res = 0 THEN [th[t] EXCEPT !.pc = "eds_done"]
                        ELSE [th[t] EXCEPT !.pc = "call_release", !.img = th[t].res, !.ret = "eds_done"]
                  [] th[t].pc = "eds_done" -> IF again THEN restart ELSE Idle(th[t].refs)]
    /\ UNCHANGED <<images, num_images, users, freeCount, freedInUse, imageListLock, imgLock,
                   reloadLock, lastRelease>>
    /\ UNCHANGED notRegVars

RegNext ==
    \E t \in Threads :
        \/ \E name \in Names, revision \in Revisions : GetStart(t, name, revision)
        \/ \E img \in Images : LockStart(t, img)
        \/ RefLockImage(t)
        \/ RefInc(t)
        \/ \E img \in Images : ReleaseStart(t, img)
        \/ ReleaseDec(t)
        \/ ImageFree(t)
        \/ \E img \in Images : RemoveStart(t, img)
        \/ RemoveDo(t)
        \/ TryFreeAllStart(t)
        \/ TryFreeAllRelock(t)
        \/ LoadAllStart(t)
        \/ \E ret \in BOOLEAN : LoadAllCheck(t, ret)
        \/ LoadAllImgLock(t)
        \/ LoadAllRelock(t)
        \/ EnsureDiskSpaceStart(t)
        \/ \E stale \in BOOLEAN : EnsureDiskSpaceLoop(t, stale)
        \/ EnsureDiskSpaceLocked(t)
        \/ \E again \in BOOLEAN : EnsureDiskSpaceNext(t, again)

\* the registry after image_loadAll found the images; one image's map and
\* uplink at rest
-----------------------------------------------------------------------------
(* Starting the uplink of one image: image_get, loadImageProxy, uplink_init *)

\* the threads that serve clients
Starters == {1, 2, 3}

\* uplink_init is called at most this many times
MaxStarts == 3

NoUplink == 0

\* nobody is on the way into uplink_init
StartIdle ==
    /\ imgUplink = NoUplink
    /\ imgMap = TRUE
    /\ initLock = 0
    /\ starter = [t \in Starters |-> "idle"]
    /\ workers = {}
    /\ cloner = 0
    /\ starts = 0
    /\ assertFailed = FALSE
    /\ ndebug = FALSE

\* the image is in the list: image_loadAll loaded it and started its
\* uplink (image_load with withUplink), or image_clone loaded it without
\* uplink and thread 1 is about to leave loadImageProxy with the socket
StartInit ==
    /\ imgMap = TRUE
    /\ initLock = 0
    /\ starter = [t \in Starters |-> "idle"]
    /\ starts = 0
    /\ assertFailed = FALSE
    /\ ndebug \in BOOLEAN
    /\ \E loaded \in BOOLEAN :
          /\ imgUplink = IF loaded THEN 1 ELSE NoUplink
          /\ workers = IF loaded THEN {1} ELSE {}
          /\ cloner = IF loaded THEN 0 ELSE 1

\* the server still runs
Alive == ~assertFailed

\* image_get( name, rid, true ) reached line 378 (the working state was
\* due for a check): it reads candidate->cache_map
GetCheckMap(t) ==
    /\ Alive
    /\ starter[t] = "idle"
    /\ cloner # t
    /\ starter' = [starter EXCEPT ![t] = IF imgMap THEN "uplink" ELSE "idle"]
    /\ UNCHANGED <<imgUplink, imgMap, initLock, workers, cloner, starts, assertFailed, ndebug>>
    /\ UNCHANGED notStartVars

\* image_get, line 380: uplink_init is called if candidate->uplink is NULL
WantsInit(uplink) == uplink = NoUplink

\* image_get, lines 380-381: candidate->uplink is read without a lock
GetCheckUplink(t) ==
    /\ Alive
    /\ starter[t] = "uplink"
    /\ starter' = [starter EXCEPT ![t] = IF WantsInit(imgUplink) /\ starts < MaxStarts
                                         THEN "init" ELSE "idle"]
    /\ starts' = IF starter'[t] = "init" THEN starts + 1 ELSE starts
    /\ UNCHANGED <<imgUplink, imgMap, initLock, workers, cloner, assertFailed, ndebug>>
    /\ UNCHANGED notStartVars

\* loadImageProxy, lines 1260-1264: image_get( name, remoteRid, false )
\* found the cloned image, uplink_init is called with the socket
ProxyInit(t) ==
    /\ Alive
    /\ cloner = t
    /\ starter[t] = "idle"
    /\ starts < MaxStarts
    /\ cloner' = 0
    /\ starter' = [starter EXCEPT ![t] = "init"]
    /\ starts' = starts + 1
    /\ UNCHANGED <<imgUplink, imgMap, initLock, workers, assertFailed, ndebug>>
    /\ UNCHANGED notStartVars

\* uplink_init, line 580: spin_lock( &image->lock )
UplinkInitLock(t) ==
    /\ Alive
    /\ starter[t] = "init"
    /\ initLock = 0
    /\ initLock' = t
    /\ starter' = [starter EXCEPT ![t] = "locked"]
    /\ UNCHANGED <<imgUplink, imgMap, workers, cloner, starts, assertFailed, ndebug>>
    /\ UNCHANGED notStartVars

\* the name of a new uplink thread
NewWorker == CHOOSE w \in 1 .. MaxStarts + 1 : w \notin workers

\* uplink_init, lines 581-606, under the image lock: the assertion, the
\* test of cache_map, the new link and its thread (created: pthread_create
\* worked)
UplinkInitBody(t, created) ==
    /\ Alive
    /\ starter[t] = "locked"
    /\ IF imgUplink # NoUplink /\ ~ndebug
       THEN /\ assertFailed' = TRUE
            /\ UNCHANGED <<imgUplink, workers, initLock, starter>>
       ELSE /\ assertFailed' = FALSE
            /\ imgUplink' = IF imgMap /\ created THEN NewWorker ELSE NoUplink
            /\ workers' = IF imgMap /\ created THEN workers \cup {NewWorker} ELSE workers
            /\ initLock' = 0
            /\ starter' = [starter EXCEPT ![t] = "idle"]
    /\ UNCHANGED <<imgMap, cloner, starts, ndebug>>
    /\ UNCHANGED notStartVars

\* uplink_mainloop, lines 826-838: the image is complete and the image
\* lock could be taken: image_markComplete, image->uplink = NULL, the
\* thread ends
UplinkComplete(w) ==
    /\ Alive
    /\ w \in workers
    /\ initLock = 0
    /\ imgMap' = FALSE
    /\ imgUplink' = NoUplink
    /\ workers' = workers \ {w}
    /\ UNCHANGED <<initLock, starter, cloner, starts, assertFailed, ndebug>>
    /\ UNCHANGED notStartVars

StartNext ==
    \/ \E t \in Starters : GetCheckMap(t)
    \/ \E t \in Starters : GetCheckUplink(t)
    \/ \E t \in Starters : ProxyInit(t)
    \/ \E t \in Starters : UplinkInitLock(t)
    \/ \E t \in Starters, created \in BOOLEAN : UplinkInitBody(t, created)
    \/ \E w \in 1 .. MaxStarts + 1 : UplinkComplete(w)

-----------------------------------------------------------------------------
(* image_get on a registry with any content                                *)

\* the image objects that can be in the registry
Objects == {1, 2, 3}

\* the slots of _images[] below _num_images
ListSlots == 0 .. 2

\* the revisions of loaded images: image_load takes 1 .. 65535 only
LoadedRids == {1, 2}

\* the names of the objects, and the names and revisions that are asked for
FixedNames == [o \in Objects |-> IF o = 3 THEN "b" ELSE "a"]

AskedNames == {"a", "b"}

AskedRids == {0, 1, 2}

\* image_get is called at most this many times
MaxGets == 2

NoCall == [pc |-> "idle", name |-> "", revision |-> 0, candidate |-> 0]

\* an empty registry that nobody asks
GetIdle ==
    /\ regList = [i \in ListSlots |-> 0]
    /\ objName = FixedNames
    /\ objRid = [o \in Objects |-> 1]
    /\ objUsers = [o \in Objects |-> 0]
    /\ listLock = 0
    /\ objLock = [o \in Objects |-> 0]
    /\ caller = [t \in Threads |-> NoCall]
    /\ gets = 0

\* a registry: every object is in at most one slot, some slots are NULL
GetInit ==
    /\ regList \in {l \in [ListSlots -> Objects \cup {0}] :
                       \A i, j \in ListSlots : (i # j /\ l[i] # 0) => l[i] # l[j]}
    /\ objName = FixedNames
    /\ objRid \in [Objects -> LoadedRids]
    /\ objUsers = [o \in Objects |-> 0]
    /\ listLock = 0
    /\ objLock = [o \in Objects |-> 0]
    /\ caller = [t \in Threads |-> NoCall]
    /\ gets = 0

\* image_get, lines 253-269: the scan under imageListLock; NULL is
\* returned if there is no candidate
GetScan(t, name, revision) ==
    /\ caller[t].pc = "idle"
    /\ gets < MaxGets
    /\ listLock = 0
    /\ gets' = gets + 1
    /\ LET c == ScanImages(regList, objName, objRid, Cardinality(ListSlots), 0, name, revision, 0)
       IN  /\ caller' = [caller EXCEPT ![t] = [pc |-> IF c = 0 THEN "returned" ELSE "scanned",
                                                name |-> name, revision |-> revision,
                                                candidate |-> c]]
           /\ listLock' = IF c = 0 THEN 0 ELSE t
    /\ UNCHANGED <<regList, objName, objRid, objUsers, objLock>>
    /\ UNCHANGED notGetVars

\* lines 271-272: mutex_lock( &candidate->lock ); mutex_unlock( &imageListLock )
GetLock(t) ==
    /\ caller[t].pc = "scanned"
    /\ objLock[caller[t].candidate] = 0
    /\ objLock' = [objLock EXCEPT ![caller[t].candidate] = t]
    /\ listLock' = 0
    /\ caller' = [caller EXCEPT ![t].pc = "locked"]
    /\ UNCHANGED <<regList, objName, objRid, objUsers, gets>>
    /\ UNCHANGED notGetVars

\* line 273: candidate->users++
UsersInc(n) == n + 1

\* lines 273-274: candidate->users++; mutex_unlock( &candidate->lock ); the
\* candidate is what image_get returns when the working state is not
\* checked
GetInc(t) ==
    /\ caller[t].pc = "locked"
    /\ objUsers' = [objUsers EXCEPT ![caller[t].candidate] = UsersInc(@)]
    /\ objLock' = [objLock EXCEPT ![caller[t].candidate] = 0]
    /\ caller' = [caller EXCEPT ![t].pc = "returned"]
    /\ UNCHANGED <<regList, objName, objRid, listLock, gets>>
    /\ UNCHANGED notGetVars

\* the caller has the result and goes on
GetDone(t) ==
    /\ caller[t].pc = "returned"
    /\ caller' = [caller EXCEPT ![t] = NoCall]
    /\ UNCHANGED <<regList, objName, objRid, objUsers, listLock, objLock, gets>>
    /\ UNCHANGED notGetVars

GetNext ==
    \/ \E t \in Threads, name \in AskedNames, revision \in AskedRids : GetScan(t, name, revision)
    \/ \E t \in Threads : GetLock(t)
    \/ \E t \in Threads : GetInc(t)
    \/ \E t \in Threads : GetDone(t)

-----------------------------------------------------------------------------
(* The client's alt-server probing: probeAltServers, switchConnection      *)

\* the entries of altservers[] that are in use; all of them are active
\* (index below MAX_ALTS_ACTIVE)
AltIndexes == {1, 2}

\* a probe that got no answer, or a server that was skipped
Fail == -1

\* the scenarios: server 2 is a little faster than server 1, or much
\* faster; the same with a connection that can be lost; two servers that
\* take turns in being the faster one, by a little or by much
Scenarios == {"near", "far", "panic", "turns_near", "turns_far"}

\* the round trip times in microseconds that the probes measure
SlowRtt(sc) == IF sc \in {"far", "turns_far"} THEN 100000 ELSE 11000

FastRtt(sc) == 10000

\* what rand() % 50 returns
RandValues == {0, 49}

\* the number of probe passes that are looked at when two servers take
\* turns, and when the connection can be lost
FlapPasses == 20

PanicPasses == 4

\* the length of a scenario, 0 if it has no end
ScenarioLength(sc) ==
    IF sc \in {"turns_near", "turns_far"} THEN FlapPasses
    ELSE IF sc = "panic" THEN PanicPasses ELSE 0

RTT_ABSOLUTE_THRESHOLD == 80000

RTT_THRESHOLD_FACTOR(us) == (us * 3) \div 4

NoMeas == [a \in AltIndexes |-> Fail]

NoPass == [panic |-> FALSE, nosock |-> FALSE, best |-> 0, target |-> 0, meas |-> NoMeas]

\* the table after addAltServers: no measurement yet, connected to server 1
ProbeIdle ==
    /\ altRtt = [a \in AltIndexes |-> 0]
    /\ bestCount = [a \in AltIndexes |-> 0]
    /\ currentServer = 1
    /\ sockFd = 3
    /\ lastPass = NoPass
    /\ scenario = "near"
    /\ passes = 0
    /\ switches = 0
    /\ crashed = FALSE

\* connected to a server of the table, or to one that is not in it
ProbeInit ==
    /\ altRtt = [a \in AltIndexes |-> 0]
    /\ bestCount = [a \in AltIndexes |-> 0]
    /\ scenario \in {"near", "far", "panic"}
    /\ currentServer \in IF scenario \in {"near", "far"} THEN AltIndexes \cup {0} ELSE {1}
    /\ sockFd = 3
    /\ lastPass = NoPass
    /\ passes = 0
    /\ switches = 0
    /\ crashed = FALSE

\* the scenario is the one of two servers taking turns
Turns == scenario \in {"turns_near", "turns_far"}

\* the scenario goes on
Running == ~crashed /\ (ScenarioLength(scenario) = 0 \/ passes < ScenarioLength(scenario))

\* the faster server of the next pass: server 2, or one after the other
Faster == IF Turns THEN 1 + (passes % 2) ELSE 2

\* what the probes of a pass measure when the servers in answers reply:
\* the time the server takes, Fail for a server that does not reply
Measured(answers) ==
    [a \in AltIndexes |-> IF a \notin answers THEN Fail
                          ELSE IF a = Faster THEN FastRtt(scenario)
                          ELSE SlowRtt(scenario)]

\* the servers that may reply in a pass: any, but both of two servers
\* that take turns
MayAnswer(answers) == Turns => answers = AltIndexes

\* lines 655-665: current is looked up unless there is no socket
Current == IF sockFd = -1 THEN 0 ELSE currentServer

\* the mutant goes through the table for the lowest round trip time
RECURSIVE FirstReply_fastest(_, _)
FirstReply_fastest(meas, a) ==
    IF a \notin AltIndexes THEN 0
    ELSE LET rest == FirstReply_fastest(meas, a + 1)
         IN  IF meas[a] = Fail THEN rest
             ELSE IF rest = 0 \/ meas[a] <= meas[rest] THEN a
             ELSE rest

\* the first entry at or after a that answered, 0 if none (the loop of
\* lines 691-805 in panic mode: it returns at the first answer)
RECURSIVE FirstReply(_, _)
FirstReply(meas, a) ==
    IF a \notin AltIndexes THEN 0
    ELSE IF meas[a] # Fail THEN a
    ELSE FirstReply(meas, a + 1)

\* lines 786-796: the entry with the lowest rtt among the entries up to a
\* that answered, the first one if several are equal; 0 if none answered
RECURSIVE BestOf(_, _, _)
BestOf(meas, rtt, a) ==
    IF a \notin AltIndexes THEN 0
    ELSE LET best == BestOf(meas, rtt, a - 1)
         IN  IF meas[a] = Fail THEN best
             ELSE IF best = 0 \/ rtt[best] > rtt[a] THEN a
             ELSE best

\* lines 817-819: the best server of the pass
BumpBest(bc) == IF bc < 50 THEN bc + 2 ELSE bc

\* lines 824-826: every other server
Decay(bc) == IF bc > 0 THEN bc - 1 ELSE bc

\* line 821: the switch that gets more likely with a higher bestCount
CountSwitch(bc, rtt, cur, best, r) ==
    bc[best] > 12 /\ (IF cur = 0 THEN TRUE ELSE rtt[best] < rtt[cur]) /\ bc[best] > r

\* the mutant lets a count switch pass whatever the difference is
GateHolds_never(bc, cur, best) == FALSE

\* line 834: the two servers' counts are too close for a count switch
GateHolds(bc, cur, best) == IF cur = 0 THEN FALSE ELSE bc[best] - bc[cur] < 8

\* the mutant switches whenever the current server is the slower one
ThresholdSwitch_slower(rtt, cur, best) == rtt[cur] > rtt[best]

\* lines 838-841: the current server is slower by more than the threshold
ThresholdSwitch(rtt, cur, best) ==
    \/ rtt[cur] > rtt[best] + RTT_ABSOLUTE_THRESHOLD
    \/ RTT_THRESHOLD_FACTOR(rtt[cur]) > rtt[best] + 1000

\* lines 806-842: doSwitch
DoSwitch(bc, rtt, cur, best, r) ==
    LET counted == CountSwitch(bc, rtt, cur, best, r) /\ ~GateHolds(bc, cur, best)
    IN  IF ~counted /\ cur # 0 THEN ThresholdSwitch(rtt, cur, best) ELSE counted

\* switchConnection, lines 862-906 (peerOk: getpeername worked)
SwitchConnection(srv, peerOk) ==
    /\ currentServer' = IF peerOk THEN srv ELSE currentServer
    /\ sockFd' = IF peerOk THEN 3 ELSE -1
    /\ switches' = IF Turns /\ peerOk THEN switches + 1 ELSE switches

\* one more pass of a scenario that has an end
Counted == IF ScenarioLength(scenario) = 0 THEN passes ELSE passes + 1

\* probeAltServers without a socket, or with a request that waits too
\* long (overdue): the first server that answers is switched to
PanicPass(answers, overdue, peerOk) ==
    /\ Running
    /\ scenario = "panic"
    /\ MayAnswer(answers)
    /\ sockFd = -1 \/ (overdue /\ Current # 0)
    /\ sockFd = -1 => ~overdue
    /\ passes' = Counted
    /\ LET meas == Measured(answers)
           first == FirstReply(meas, 1)
       IN  /\ lastPass' = [panic |-> TRUE, nosock |-> sockFd = -1, best |-> 0,
                            target |-> first, meas |-> meas]
           /\ IF first # 0
              THEN SwitchConnection(first, peerOk)
              ELSE peerOk /\ UNCHANGED <<currentServer, sockFd, switches>>
    /\ UNCHANGED <<altRtt, bestCount, scenario, crashed>>
    /\ UNCHANGED notProbeVars

\* lines 844-859: the end of a pass with a socket; the round trip times
\* and counts of the pass are stored, and the connection is switched to
\* the best server if doSwitch
PassEnd(cur, rtt, best, bc, doSwitch, peerOk, segv) ==
    /\ segv \in (IF best # 0 /\ cur = 0 THEN BOOLEAN ELSE {FALSE})
    /\ peerOk \in (IF doSwitch /\ ~segv THEN BOOLEAN ELSE {TRUE})
    /\ altRtt' = rtt
    /\ passes' = Counted
    /\ crashed' = segv
    /\ lastPass' = [panic |-> FALSE, nosock |-> FALSE, best |-> best,
                     target |-> IF doSwitch /\ ~segv THEN best ELSE 0, meas |-> NoMeas]
    /\ IF segv
       THEN UNCHANGED <<bestCount, currentServer, sockFd, switches>>
       ELSE IF doSwitch
            THEN /\ bestCount' = [a \in AltIndexes |-> IF a = best THEN bc[a] ELSE 0]
                 /\ SwitchConnection(best, peerOk)
            ELSE /\ bestCount' = IF best # 0 THEN bc ELSE bestCount
                 /\ UNCHANGED <<currentServer, sockFd, switches>>

\* lines 806-842: the counts after the pass and the decision
PassDecide(cur, rtt, best, bc, r, peerOk, segv) ==
    PassEnd(cur, rtt, best, bc, best # 0 /\ DoSwitch(bc, rtt, cur, best, r), peerOk, segv)

\* lines 810-830: the best server of the pass gains, the others lose
PassCount(cur, rtt, best, r, peerOk, segv) ==
    PassDecide(cur, rtt, best,
               [a \in AltIndexes |-> IF a = best THEN BumpBest(bestCount[a])
                                     ELSE Decay(bestCount[a])],
               r, peerOk, segv)

\* lines 691-805: a server that replied has a new round trip time, the
\* fastest of them is the best server
PassMeasure(meas, rtt, r, peerOk, segv) ==
    PassCount(Current, rtt, BestOf(meas, rtt, 2), r, peerOk, segv)

\* probeAltServers with a socket, lines 691-859: the active servers are
\* measured, the counts are updated, the connection is switched or not
\* (r: rand() % 50; segv: reading current->liveRtt through NULL, line 813,
\* kills the client)
ProbePass(answers, r, peerOk, segv) ==
    /\ Running
    /\ sockFd # -1
    /\ MayAnswer(answers)
    /\ PassMeasure(Measured(answers),
                   [a \in AltIndexes |-> IF a \in answers THEN Measured(answers)[a]
                                         ELSE altRtt[a]],
                   r, peerOk, segv)
    /\ UNCHANGED scenario
    /\ UNCHANGED notProbeVars

\* the receive thread finds the connection dead: connection.sockFd = -1
ConnectionLost ==
    /\ Running
    /\ scenario = "panic"
    /\ sockFd # -1
    /\ sockFd' = -1
    /\ lastPass' = NoPass
    /\ UNCHANGED <<altRtt, bestCount, currentServer, scenario, passes, switches, crashed>>
    /\ UNCHANGED notProbeVars

\* from now on the two servers take turns in being the faster one
BeginTurns ==
    /\ ~crashed
    /\ scenario \in {"near", "far"}
    /\ scenario' = IF scenario = "near" THEN "turns_near" ELSE "turns_far"
    /\ lastPass' = NoPass
    /\ passes' = 0
    /\ switches' = 0
    /\ UNCHANGED <<altRtt, bestCount, currentServer, sockFd, crashed>>
    /\ UNCHANGED notProbeVars

ProbeNext ==
    \/ \E answers \in SUBSET AltIndexes, overdue, peerOk \in BOOLEAN :
          PanicPass(answers, overdue, peerOk)
    \/ \E answers \in SUBSET AltIndexes, r \in RandValues, peerOk, segv \in BOOLEAN :
          ProbePass(answers, r, peerOk, segv)
    \/ ConnectionLost

\* probe passes with a socket, with two servers that take turns from some
\* moment on
TurnsNext ==
    \/ \E answers \in SUBSET AltIndexes, r \in RandValues, peerOk, segv \in BOOLEAN :
          ProbePass(answers, r, peerOk, segv)
    \/ BeginTurns

\* ---------------------------------------------------------------------
\* The locks of the server: which thread takes which lock in which order,
\* and what it holds while it talks to the network
\* ---------------------------------------------------------------------

\* the locks, one image, one uplink and one client being looked at
Locks == {"reloadLock", "remoteCloneLock", "imageListLock", "image->lock",
          "integrityQueueLock", "altServersLock", "queueLock", "client->sendMutex",
          "pendingLockConsume", "pendingLockWrite", "rttLock"}

\* the threads: the integrity checker, the uplink of the image, the
\* handler of the client, the RTT probe thread, a thread that loads images
LockThreads == {"integrity", "uplink", "client", "rtt", "loader"}

\* the operations of a function that matter here
Lock(l) == [op |-> "lock", lock |-> l]

Unlock(l) == [op |-> "unlock", lock |-> l]

\* spin_trylock / mutex_trylock: the function is left if the lock is taken
TryLock(l) == [op |-> "trylock", lock |-> l]

\* connect, send, recv, write or writev on a socket
Net(call) == [op |-> "net", lock |-> call]

\* work on memory or on files
Work(what) == [op |-> "work", lock |-> what]

\* image_lock, image in the list
L_image_lock == <<Lock("imageListLock"), Lock("image->lock"), Unlock("imageListLock"),
                  Unlock("image->lock")>>

\* image_lock, image not in the list; image_get that finds nothing
L_image_lock_gone == <<Lock("imageListLock"), Unlock("imageListLock")>>

\* image_release while the image is in use or in the list
L_image_release == <<Lock("imageListLock"), Lock("image->lock"), Unlock("image->lock"),
                     Unlock("imageListLock")>>

\* uplink_shutdown
L_uplink_shutdown == <<Lock("queueLock"), Unlock("queueLock")>>

\* image_release of the last user of an image that left the list: image_free
L_image_release_free ==
    L_image_release \o L_uplink_shutdown \o <<Lock("image->lock"), Unlock("image->lock")>>

\* image_get up to its return of a candidate
L_image_get == <<Lock("imageListLock"), Lock("image->lock"), Unlock("imageListLock"),
                 Unlock("image->lock")>>

\* integrity_check
L_integrity_check == <<Lock("integrityQueueLock"), Unlock("integrityQueueLock")>>

\* the mutant keeps the image locked while it queues the check
L_image_updateCachemap_held ==
    <<Lock("image->lock")>> \o L_integrity_check \o <<Unlock("image->lock")>>

\* image_updateCachemap with set = true that completes a hash block
L_image_updateCachemap ==
    <<Lock("image->lock"), Unlock("image->lock")>> \o L_integrity_check
    \o <<Lock("image->lock"), Unlock("image->lock")>>

\* image_updateCachemap with set = false, image_isComplete, uplink_init
L_image_locked == <<Lock("image->lock"), Unlock("image->lock")>>

\* altservers_getListForUplink, altservers_getListForClient,
\* altservers_updateRtt, altservers_serverFailed
L_altServers == <<Lock("altServersLock"), Unlock("altServersLock")>>

\* altservers_findUplink
L_altservers_findUplink == <<Lock("pendingLockWrite"), Unlock("pendingLockWrite")>>

\* image_addToList
L_image_addToList == <<Lock("imageListLock"), Unlock("imageListLock")>>

\* image_load of a new image that gets a full check
L_image_load == L_image_lock_gone \o L_image_addToList \o L_integrity_check

\* integrity_main: one queue entry, from the lock at the top (or the return
\* of pthread_cond_wait) to the next pthread_cond_wait
L_integrity_main(failed) ==
    <<Lock("integrityQueueLock")>> \o L_image_lock
    \o <<Lock("image->lock"), Unlock("integrityQueueLock"), Unlock("image->lock"),
         Work("image_checkBlocksCrc32")>>
    \o (IF failed THEN L_image_locked ELSE <<>>)
    \o <<Lock("integrityQueueLock")>> \o L_image_release \o <<Unlock("integrityQueueLock")>>

\* integrity_main, image without crc32 list
L_integrity_main_nocrc ==
    <<Lock("integrityQueueLock")>> \o L_image_lock
    \o <<Lock("image->lock"), Unlock("image->lock")>>
    \o L_image_release_free \o <<Unlock("integrityQueueLock")>>

\* integrity_main, image that has left the list
L_integrity_main_gone ==
    <<Lock("integrityQueueLock")>> \o L_image_lock_gone \o <<Unlock("integrityQueueLock")>>

\* uplink_send_requests, one request
L_uplink_send_requests ==
    <<Lock("queueLock"), Unlock("queueLock"), Net("write"), Lock("queueLock"),
      Unlock("queueLock")>>

\* the mutant sends to the client with the queue locked
L_uplink_handle_receive_locked ==
    <<Net("recv"), Work("write")>> \o L_image_updateCachemap
    \o <<Lock("queueLock"), Lock("client->sendMutex"), Net("writev"),
         Unlock("client->sendMutex"), Unlock("queueLock")>>

\* uplink_handle_receive, one reply that one client waits for
L_uplink_handle_receive ==
    <<Net("recv"), Work("write")>> \o L_image_updateCachemap
    \o <<Lock("queueLock"), Lock("client->sendMutex"), Unlock("queueLock"), Net("writev"),
         Unlock("client->sendMutex"), Lock("queueLock"), Unlock("queueLock")>>

\* uplink_mainloop, time for a check, image complete
L_uplink_complete ==
    L_image_locked
    \o <<TryLock("image->lock"), Lock("queueLock"), Unlock("queueLock"), Unlock("image->lock")>>

\* uplink_mainloop, time for a check, image not complete
L_uplink_altcheck == L_image_locked \o L_altservers_findUplink \o <<Net("send")>>

\* uplink_request
L_uplink_request ==
    <<Lock("image->lock"), Lock("queueLock"), Unlock("image->lock"), Unlock("queueLock")>>

\* uplink_removeClient
L_uplink_removeClient ==
    <<Lock("queueLock"), Lock("client->sendMutex"), Unlock("client->sendMutex"),
      Unlock("queueLock")>>

\* altservers_main, the start of the work on one pending uplink
L_altservers_main_begin ==
    <<Lock("pendingLockWrite"), Unlock("pendingLockWrite"), Lock("pendingLockConsume"),
      Lock("pendingLockWrite"), Unlock("pendingLockWrite")>>

\* altservers_main, the end of the work on one pending uplink
L_altservers_main_end ==
    <<Lock("pendingLockWrite"), Unlock("pendingLockWrite"), Unlock("pendingLockConsume")>>

\* altservers_main, one pending uplink and one server that is tested
L_altservers_main(reached) ==
    L_altservers_main_begin \o L_image_lock \o L_altServers
    \o <<Net("connect"), Net("send")>>
    \o (IF reached
        THEN <<Net("recv"), Lock("rttLock")>> \o L_altServers \o <<Unlock("rttLock")>>
        ELSE L_altServers)
    \o <<Lock("rttLock"), Unlock("rttLock")>>
    \o L_image_release \o L_altservers_main_end

\* altservers_main, uplink of an image that has left the list
L_altservers_main_gone ==
    L_altservers_main_begin \o L_image_lock_gone \o L_altservers_main_end

\* image_closeUnusedFd, one image
L_image_closeUnusedFd ==
    <<Lock("imageListLock"), Lock("image->lock"), Unlock("imageListLock"),
      Unlock("image->lock"), Lock("imageListLock"), Unlock("imageListLock")>>

\* loadImageProxy for a revision that is not there and gets cloned
L_loadImageProxy ==
    <<Lock("remoteCloneLock")>> \o L_image_lock_gone \o <<Unlock("remoteCloneLock")>>
    \o L_altServers
    \o <<Net("connect"), Net("send"), Net("recv"), Lock("reloadLock")>>
    \o L_image_lock \o L_image_release
    \o <<Net("recv")>> \o L_image_load
    \o <<Unlock("reloadLock")>>
    \o L_image_get \o L_image_locked

\* image_loadAll with one image that has vanished and one that is new
L_image_loadAll ==
    <<TryLock("reloadLock"), Lock("imageListLock"), Lock("image->lock"), Unlock("image->lock"),
      Unlock("imageListLock")>>
    \o L_uplink_shutdown \o L_image_locked
    \o L_image_load \o <<Unlock("reloadLock")>>

\* image_killUplinks
L_image_killUplinks ==
    <<Lock("imageListLock"), Lock("image->lock"), Lock("queueLock"), Unlock("queueLock"),
      Unlock("image->lock"), Unlock("imageListLock")>>

\* the functions, by a name
Routines == {"integrity_main", "integrity_main failed", "integrity_main nocrc",
             "integrity_main gone", "uplink_send_requests", "uplink_handle_receive",
             "uplink complete", "uplink altcheck", "uplink_request", "uplink_removeClient",
             "image_get", "image_release", "altservers_getListForClient",
             "altservers_main", "altservers_main failed", "altservers_main gone",
             "image_closeUnusedFd", "loadImageProxy", "image_loadAll", "image_killUplinks"}

\* the operations of a function
Code(r) ==
    CASE r = "integrity_main" -> L_integrity_main(FALSE)
      [] r = "integrity_main failed" -> L_integrity_main(TRUE)
      [] r = "integrity_main nocrc" -> L_integrity_main_nocrc
      [] r = "integrity_main gone" -> L_integrity_main_gone
      [] r = "uplink_send_requests" -> L_uplink_send_requests
      [] r = "uplink_handle_receive" -> L_uplink_handle_receive
      [] r = "uplink complete" -> L_uplink_complete
      [] r = "uplink altcheck" -> L_uplink_altcheck
      [] r = "uplink_request" -> L_uplink_request
      [] r = "uplink_removeClient" -> L_uplink_removeClient
      [] r = "image_get" -> L_image_get
      [] r = "image_release" -> L_image_release
      [] r = "altservers_getListForClient" -> L_altServers
      [] r = "altservers_main" -> L_altservers_main(TRUE)
      [] r = "altservers_main failed" -> L_altservers_main(FALSE)
      [] r = "altservers_main gone" -> L_altservers_main_gone
      [] r = "image_closeUnusedFd" -> L_image_closeUnusedFd
      [] r = "loadImageProxy" -> L_loadImageProxy
      [] r = "image_loadAll" -> L_image_loadAll
      [] r = "image_killUplinks" -> L_image_killUplinks
      [] OTHER -> <<>>

\* the functions that a thread runs
RoutinesOf(t) ==
    CASE t = "integrity" -> {"integrity_main", "integrity_main failed", "integrity_main nocrc",
                             "integrity_main gone"}
      [] t = "uplink" -> {"uplink_send_requests", "uplink_handle_receive", "uplink complete",
                          "uplink altcheck"}
      [] t = "client" -> {"uplink_request", "uplink_removeClient", "image_get", "image_release",
                          "altservers_getListForClient"}
      [] t = "rtt" -> {"altservers_main", "altservers_main failed", "altservers_main gone",
                       "image_closeUnusedFd"}
      [] t = "loader" -> {"loadImageProxy", "image_loadAll", "image_killUplinks"}

\* no thread runs
LockIdle ==
    /\ holder = [l \in Locks |-> "none"]
    /\ routine = [t \in LockThreads |-> "idle"]
    /\ at = [t \in LockThreads |-> 1]
    /\ running = {}

\* two of the threads run, every lock is free
LockInit ==
    /\ holder = [l \in Locks |-> "none"]
    /\ routine = [t \in LockThreads |-> "idle"]
    /\ at = [t \in LockThreads |-> 1]
    /\ running \in {pair \in SUBSET LockThreads : Cardinality(pair) = 2}

\* the next operation of thread t
NextOp(t) ==
    IF routine[t] = "idle" THEN Work("idle") ELSE Code(routine[t])[at[t]]

\* the locks that thread t holds
Held(t) == {l \in Locks : holder[l] = t}

\* thread t has done its operation
Advance(t) ==
    IF at[t] = Len(Code(routine[t]))
    THEN /\ routine' = [routine EXCEPT ![t] = "idle"]
         /\ at' = [at EXCEPT ![t] = 1]
    ELSE /\ at' = [at EXCEPT ![t] = at[t] + 1]
         /\ UNCHANGED routine

\* thread t calls the function r
Enter(t, r) ==
    /\ t \in running
    /\ routine[t] = "idle"
    /\ r \in RoutinesOf(t)
    /\ routine' = [routine EXCEPT ![t] = r]
    /\ UNCHANGED <<holder, at, running>>
    /\ UNCHANGED notLockVars

\* mutex_lock and spin_lock wait for the lock; a trylock takes the lock if
\* it is free, and the function is left if it is not
LockStep(t) ==
    /\ NextOp(t).op \in {"lock", "trylock"}
    /\ IF holder[NextOp(t).lock] = "none"
       THEN /\ holder' = [holder EXCEPT ![NextOp(t).lock] = t]
            /\ Advance(t)
       ELSE /\ NextOp(t).op = "trylock"
            /\ routine' = [routine EXCEPT ![t] = "idle"]
            /\ at' = [at EXCEPT ![t] = 1]
            /\ UNCHANGED holder
    /\ UNCHANGED running
    /\ UNCHANGED notLockVars

\* mutex_unlock, spin_unlock
UnlockStep(t) ==
    /\ NextOp(t).op = "unlock"
    /\ holder' = [holder EXCEPT ![NextOp(t).lock] = "none"]
    /\ Advance(t)
    /\ UNCHANGED running
    /\ UNCHANGED notLockVars

\* a call on a socket
NetStep(t) ==
    /\ NextOp(t).op = "net"
    /\ Advance(t)
    /\ UNCHANGED <<holder, running>>
    /\ UNCHANGED notLockVars

\* anything else
WorkStep(t) ==
    /\ routine[t] # "idle"
    /\ NextOp(t).op = "work"
    /\ Advance(t)
    /\ UNCHANGED <<holder, running>>
    /\ UNCHANGED notLockVars

LockNext ==
    \/ \E t \in LockThreads, r \in Routines : Enter(t, r)
    \/ \E t \in LockThreads : LockStep(t)
    \/ \E t \in LockThreads : UnlockStep(t)
    \/ \E t \in LockThreads : NetStep(t)
    \/ \E t \in LockThreads : WorkStep(t)

-----------------------------------------------------------------------------
(* image_get with checkIfWorking: the check of the backing file            *)

\* the image objects of one name and revision: the image as it was loaded,
\* and the copies that image_get makes of it
CheckObjects == {1, 2, 3}

\* _maxImages
CheckSlots == 3

\* a caller holds at most this many references to one object
MaxCheckUsers == 2

\* what lseek and pread on candidate->readFd find: all is well, lseek
\* fails, the size is not realFilesize, pread fails
CheckResults == {"ok", "lseek", "size", "pread"}

NoGet == [ret |-> 0, found |-> "none", reload |-> FALSE]

WorkIdle ==
    /\ chkList = [i \in 0 .. CheckSlots - 1 |-> IF i = 0 THEN 1 ELSE 0]
    /\ chkNum = 1
    /\ chkAlive = {1}
    /\ chkWorking = [o \in CheckObjects |-> FALSE]
    /\ chkReadFd = [o \in CheckObjects |-> FALSE]
    /\ chkUsers = [o \in CheckObjects |-> 0]
    /\ lastGet = NoGet

\* image_load has put the image into _images[]: it works if it is
\* complete (line 882), its file is open
WorkInit ==
    /\ chkList = [i \in 0 .. CheckSlots - 1 |-> IF i = 0 THEN 1 ELSE 0]
    /\ chkNum = 1
    /\ chkAlive = {1}
    /\ chkWorking \in {[o \in CheckObjects |-> o = 1 /\ w] : w \in BOOLEAN}
    /\ chkReadFd = [o \in CheckObjects |-> o = 1]
    /\ chkUsers = [o \in CheckObjects |-> 0]
    /\ lastGet = NoGet

\* image_addToList, lines 701-720: <<return value, _images, _num_images>>
image_addToList(imgs, n, image) ==
    LET free == {i \in 0 .. n - 1 : imgs[i] = 0}
    IN  IF free # {}
        THEN <<TRUE, [imgs EXCEPT ![CHOOSE i \in free : \A k \in free : i <= k] = image], n>>
        ELSE IF n >= CheckSlots THEN <<FALSE, imgs, n>>
        ELSE <<TRUE, [imgs EXCEPT ![n] = image], n + 1>>

\* the candidate of image_get( name, rid, ... ) for the name and rid of
\* the objects, lines 253-263
CheckCandidate ==
    ScanImages(chkList, [o \in CheckObjects |-> "a"], [o \in CheckObjects |-> 1],
               chkNum, 0, "a", 1, 0)

\* image_get returns the object ret
Returned(ret, found, reload) ==
    lastGet' = [ret |-> ret, found |-> found, reload |-> reload]

\* image_ensureOpen fails, lines 205-224 and 280-288: the image is
\* disabled and, with _removeMissingImages, taken out of the list
GetNotOpen(c, removeMissing) ==
    LET r == RemoveLoop(chkList, chkNum, chkNum - 1, c)
    IN  /\ chkWorking' = [chkWorking EXCEPT ![c] = FALSE]
        /\ chkList' = IF removeMissing THEN r[1] ELSE chkList
        /\ chkNum' = IF removeMissing THEN r[2] ELSE chkNum
        /\ chkUsers' = [chkUsers EXCEPT ![c] = @ + 1]
        /\ Returned(c, "open", FALSE)
        /\ UNCHANGED <<chkAlive, chkReadFd>>

\* lines 340-376: the image is marked for reload: a copy that does not
\* work and has no file open is added to the list and returned, if the
\* list has room for it
GetReload(c, found) ==
    LET img == CHOOSE o \in CheckObjects \ chkAlive : \A k \in CheckObjects \ chkAlive : o <= k
        add == image_addToList(chkList, chkNum, img)
    IN  /\ chkList' = add[2]
        /\ chkNum' = add[3]
        /\ chkReadFd' = [chkReadFd EXCEPT ![c] = TRUE, ![img] = FALSE]
        /\ chkWorking' = [chkWorking EXCEPT ![img] = FALSE]
        /\ IF add[1]
           THEN /\ chkAlive' = chkAlive \cup {img}
                /\ chkUsers' = [chkUsers EXCEPT ![img] = 1]
                /\ Returned(img, found, TRUE)
           ELSE /\ chkUsers' = [chkUsers EXCEPT ![c] = @ + 1]
                /\ Returned(c, found, TRUE)
                /\ UNCHANGED chkAlive

\* lines 311-333 without a reload: if the size of the file is not
\* realFilesize a message is logged and image->working stays as it is
\* (lines 318-321), if the file can be read the image works (line 332)
GetChecked(c, found) ==
    /\ chkWorking' = [chkWorking EXCEPT ![c] = IF found = "size" THEN @ ELSE TRUE]
    /\ chkReadFd' = [chkReadFd EXCEPT ![c] = TRUE]
    /\ chkUsers' = [chkUsers EXCEPT ![c] = @ + 1]
    /\ Returned(c, found, FALSE)
    /\ UNCHANGED <<chkList, chkNum, chkAlive>>

\* image_get( name, rid, true ), lines 243-376; openOk: image_ensureOpen
\* can open the file and finds the size it expects; due: the last check
\* is more than NONWORKING_RECHECK_INTERVAL_SECONDS ago; found: what the
\* check of the open file finds
ImageGetCheck(removeMissing, openOk, due, found) ==
    /\ CheckCandidate # 0
    /\ chkUsers[CheckCandidate] < MaxCheckUsers
    /\ IF ~chkReadFd[CheckCandidate] /\ ~openOk
       THEN GetNotOpen(CheckCandidate, removeMissing)
       ELSE IF ~due
            THEN /\ chkReadFd' = [chkReadFd EXCEPT ![CheckCandidate] = TRUE]
                 /\ chkUsers' = [chkUsers EXCEPT ![CheckCandidate] = @ + 1]
                 /\ Returned(CheckCandidate, "none", FALSE)
                 /\ UNCHANGED <<chkList, chkNum, chkAlive, chkWorking>>
            ELSE IF found \in {"lseek", "pread"}
                 THEN /\ CheckObjects \ chkAlive # {}
                      /\ GetReload(CheckCandidate, found)
                 ELSE GetChecked(CheckCandidate, found)
    /\ UNCHANGED notWorkVars

\* image_release, lines 418-444: the object is freed when it has no users
\* and is not in the list
CheckRelease(o) ==
    /\ chkUsers[o] > 0
    /\ chkUsers' = [chkUsers EXCEPT ![o] = @ - 1]
    /\ chkAlive' = IF chkUsers[o] = 1 /\ ~InList(chkList, chkNum, o) THEN chkAlive \ {o}
                   ELSE chkAlive
    /\ lastGet' = NoGet
    /\ UNCHANGED <<chkList, chkNum, chkWorking, chkReadFd>>
    /\ UNCHANGED notWorkVars

\* image_closeUnusedFd, lines 1738-1766: the file of an image in the list
\* that nobody uses is closed
CloseUnusedFd(o) ==
    /\ InList(chkList, chkNum, o)
    /\ chkUsers[o] = 0
    /\ chkReadFd[o]
    /\ chkReadFd' = [chkReadFd EXCEPT ![o] = FALSE]
    /\ lastGet' = NoGet
    /\ UNCHANGED <<chkList, chkNum, chkAlive, chkWorking, chkUsers>>
    /\ UNCHANGED notWorkVars

\* altservers_main after a probe pass with the verdict RTT_DONTCHANGE
\* (altservers.c lines 588-591), uplink_mainloop after RTT_DOCHANGE (line
\* 807): image->working = true
UplinkSetsWorking(o) ==
    /\ o \in chkAlive
    /\ ~chkWorking[o]
    /\ chkWorking' = [chkWorking EXCEPT ![o] = TRUE]
    /\ UNCHANGED <<chkList, chkNum, chkAlive, chkReadFd, chkUsers, lastGet>>
    /\ UNCHANGED notWorkVars

WorkNext ==
    \/ \E removeMissing, openOk, due \in BOOLEAN : \E found \in CheckResults :
          ImageGetCheck(removeMissing, openOk, due, found)
    \/ \E o \in CheckObjects : CheckRelease(o)
    \/ \E o \in CheckObjects : CloseUnusedFd(o)
    \/ \E o \in CheckObjects : UplinkSetsWorking(o)

-----------------------------------------------------------------------------
(* integrity.c: the queue of hash blocks to check and the checker thread    *)

\* the size of a hash block: 16 MiB, 4096 blocks of 4 KiB
HASH_BLOCK_SIZE == 4096 * DNBD3_BLOCK_SIZE

\* IMGSIZE_TO_HASHBLOCKS: ceil(size / HASH_BLOCK_SIZE)
IMGSIZE_TO_HASHBLOCKS(size) == (size + HASH_BLOCK_SIZE - 1) \div HASH_BLOCK_SIZE

\* the length of checkQueue[] (100 in integrity.c)
CHECK_QUEUE_SIZE == 2

\* the images with a crc32 list; 0 stands for NULL
IntegrityImages == {1, 2}

\* image->virtualFilesize: two hash blocks, and one hash block plus one block
IntegritySize(image) ==
    IF image = 1 THEN 2 * HASH_BLOCK_SIZE ELSE HASH_BLOCK_SIZE + DNBD3_BLOCK_SIZE

\* the hash blocks of an image
HashBlocks(image) == 0 .. IMGSIZE_TO_HASHBLOCKS(IntegritySize(image)) - 1

QueueEntry(image, block) == [image |-> image, block |-> block]

NoCheck == [image |-> 0, block |-> 0, wrote |-> FALSE, slot |-> 0, queued |-> FALSE]

NoClear == [image |-> 0, start |-> 0, end |-> 0]

\* the state before integrity_init
IntegrityIdle ==
    /\ checkQueue = [i \in 0 .. CHECK_QUEUE_SIZE - 1 |-> QueueEntry(0, 0)]
    /\ integrityQueueLen = -1
    /\ bRunning = FALSE
    /\ checker = [pc |-> "unborn", i |-> 0, image |-> 0, block |-> 0]
    /\ hashDone = [image \in IntegrityImages |-> {}]
    /\ lastCheck = NoCheck
    /\ lastClear = NoClear

\* integrity_init: created tells whether pthread_create succeeded
integrity_init(created) ==
    /\ checker.pc = "unborn"
    /\ bRunning' = created
    /\ integrityQueueLen' = IF created THEN 0 ELSE integrityQueueLen
    /\ checker' = [checker EXCEPT !.pc = IF created THEN "wait" ELSE "failed"]
    /\ UNCHANGED <<checkQueue, hashDone, lastCheck, lastClear, notIntegrityVars>>

\* the for loop of integrity_check: <<freeSlot, the pair is in the queue>>
RECURSIVE CheckQueueScan(_, _, _, _, _, _)
CheckQueueScan(q, len, i, freeSlot, image, block) ==
    IF i >= len THEN <<freeSlot, FALSE>>
    ELSE IF freeSlot = -1 /\ q[i].image = 0
         THEN CheckQueueScan(q, len, i + 1, i, image, block)
         ELSE IF q[i].image = image /\ q[i].block = block
              THEN <<freeSlot, TRUE>>
              ELSE CheckQueueScan(q, len, i + 1, freeSlot, image, block)

\* integrity_check: the queue and queueLen after the call, and the index it
\* wrote to; a write to an index outside the array does not reach the array
integrity_check(q, len, image, block) ==
    LET s == CheckQueueScan(q, len, 0, -1, image, block)
        freeSlot == IF s[1] = -1 THEN len ELSE s[1]
    IN  IF s[2] \/ (s[1] = -1 /\ len >= CHECK_QUEUE_SIZE)
        THEN [queue |-> q, len |-> len, wrote |-> FALSE, slot |-> 0]
        ELSE [queue |-> IF freeSlot \in DOMAIN q
                        THEN [q EXCEPT ![freeSlot] = QueueEntry(image, block)]
                        ELSE q,
              len   |-> IF s[1] = -1 THEN len + 1 ELSE len,
              wrote |-> TRUE,
              slot  |-> freeSlot]

\* the slots below queueLen that hold the pair
LiveSlots(q, len, image, block) ==
    {i \in DOMAIN q : i < len /\ q[i].image = image /\ q[i].block = block}

\* image_updateCachemap( set ) found the hash block complete and calls
\* integrity_check; integrityQueueLock is free while the checker waits or
\* computes a checksum
HashBlockComplete(image, block) ==
    /\ checker.pc \in {"failed", "wait", "check"}
    /\ block \in HashBlocks(image)
    /\ LET r == integrity_check(checkQueue, integrityQueueLen, image, block)
       IN  /\ checkQueue' = r.queue
           /\ integrityQueueLen' = r.len
           /\ lastCheck' = [image  |-> image,
                            block  |-> block,
                            wrote  |-> r.wrote,
                            slot   |-> r.slot,
                            queued |-> LiveSlots(checkQueue, integrityQueueLen,
                                                 image, block) # {}]
    /\ hashDone' = [hashDone EXCEPT ![image] = @ \cup {block}]
    /\ UNCHANGED <<bRunning, checker, lastClear, notIntegrityVars>>

\* pthread_cond_wait returns with the lock and the for loop starts
CheckerWake ==
    /\ checker.pc = "wait"
    /\ integrityQueueLen > 0
    /\ checker' = [checker EXCEPT !.pc = "scan", !.i = integrityQueueLen - 1]
    /\ UNCHANGED <<checkQueue, integrityQueueLen, bRunning, hashDone, lastCheck, lastClear,
                   notIntegrityVars>>

\* one turn of the for loop of integrity_main, up to the unlock before the
\* checksum; gone tells that image_lock returned NULL
CheckerScan(gone) ==
    /\ checker.pc = "scan"
    /\ IF checker.i < 0
       THEN /\ checker' = IF integrityQueueLen = 0
                          THEN [checker EXCEPT !.pc = "wait"]
                          ELSE [checker EXCEPT !.i = integrityQueueLen - 1]
            /\ UNCHANGED <<checkQueue, integrityQueueLen>>
       ELSE IF checkQueue[checker.i].image = 0
            THEN /\ checker' = [checker EXCEPT !.i = @ - 1]
                 /\ UNCHANGED <<checkQueue, integrityQueueLen>>
            ELSE /\ checkQueue' = [checkQueue EXCEPT ![checker.i].image = 0]
                 /\ IF gone
                    THEN /\ checker' = [checker EXCEPT !.i = @ - 1]
                         /\ UNCHANGED integrityQueueLen
                    ELSE /\ integrityQueueLen' =
                               IF checker.i + 1 = integrityQueueLen
                               THEN integrityQueueLen - 1
                               ELSE integrityQueueLen
                         /\ checker' = [checker EXCEPT
                                           !.pc = "check",
                                           !.image = checkQueue[checker.i].image,
                                           !.block = checkQueue[checker.i].block]
    /\ UNCHANGED <<bRunning, hashDone, lastCheck, lastClear, notIntegrityVars>>

\* the checksum of the block: the file cannot be opened, the checksum is
\* right, or it is wrong and image_updateCachemap clears the hash block;
\* its assert( end <= image->virtualFilesize ) ends the server unless it is
\* compiled out
CheckerVerify(result, assertsOff) ==
    /\ checker.pc = "check"
    /\ IF result = "bad"
       THEN LET start == checker.block * HASH_BLOCK_SIZE
                end   == (checker.block + 1) * HASH_BLOCK_SIZE
            IN  /\ lastClear' = [image |-> checker.image, start |-> start, end |-> end]
                /\ IF end > IntegritySize(checker.image) /\ ~assertsOff
                   THEN /\ checker' = [checker EXCEPT !.pc = "aborted"]
                        /\ UNCHANGED hashDone
                   ELSE /\ checker' = [checker EXCEPT !.pc = "scan", !.i = @ - 1]
                        /\ hashDone' = [hashDone EXCEPT
                                           ![checker.image] = @ \ {checker.block}]
       ELSE /\ checker' = [checker EXCEPT !.pc = "scan", !.i = @ - 1]
            /\ UNCHANGED <<hashDone, lastClear>>
    /\ UNCHANGED <<checkQueue, integrityQueueLen, bRunning, lastCheck, notIntegrityVars>>

IntegrityNext ==
    \/ \E created \in BOOLEAN : integrity_init(created)
    \/ \E image \in IntegrityImages, block \in {0, 1} : HashBlockComplete(image, block)
    \/ CheckerWake
    \/ \E gone \in BOOLEAN : CheckerScan(gone)
    \/ \E result \in {"nofd", "ok", "bad"}, assertsOff \in BOOLEAN :
          CheckerVerify(result, assertsOff)

-----------------------------------------------------------------------------
(* altservers.c: the RTT measurements of the server for its uplinks        *)

\* the length of pending[]
SERVER_MAX_PENDING_ALT_CHECKS == 2

\* the rtt of a server that was not measured; it is above every average
\* that a measurement can give
RTT_UNREACHABLE == 134217727

\* the servers of a pass: two alt servers and uplink->currentServer
PassServers == <<"alt1", "alt2", "current">>

\* the averages that altservers_updateRtt returns, in microseconds
RttValues == {2000, 8000, 12000000}

\* the file descriptors of the sockets
SockIds == 1 .. 4

MinOf(S) == CHOOSE x \in S : \A y \in S : x <= y

\* the descriptor that the next connect returns
NewSock(open) == MinOf(SockIds \ open)

AltWaiting ==
    [pc |-> "wait", itLink |-> 0, itAlt |-> 0, bestSock |-> -1,
     bestRtt |-> RTT_UNREACHABLE, currentRtt |-> RTT_UNREACHABLE,
     candidateReplied |-> FALSE, currentMeasured |-> FALSE]

\* the state after altservers_init and uplink_init
RttIdle ==
    /\ pending = [i \in 0 .. SERVER_MAX_PENDING_ALT_CHECKS - 1 |-> "NULL"]
    /\ consumeLock = "none"
    /\ link = [fd |-> -1, betterFd |-> -1, rttTestResult |-> RTT_IDLE, asked |-> FALSE]
    /\ linkThread = "loop"
    /\ altThread = AltWaiting
    /\ openSocks = {}
    /\ removed = FALSE

FreePending(p) == {i \in DOMAIN p : p[i] = "NULL"}

\* mutant: altservers_findUplink takes the slot and leaves rttTestResult as it is
altservers_findUplink_noresult(p, result, uplink) ==
    IF FreePending(p) = {}
    THEN [pending |-> p, result |-> result]
    ELSE [pending |-> [p EXCEPT ![MinOf(FreePending(p))] = uplink],
          result  |-> result]

\* altservers_findUplink: pending[] and uplink->rttTestResult after the call
altservers_findUplink(p, result, uplink) ==
    IF result = RTT_INPROGRESS /\ \E i \in DOMAIN p : p[i] = uplink
    THEN [pending |-> p, result |-> result]
    ELSE IF FreePending(p) = {}
         THEN [pending |-> p, result |-> result]
         ELSE [pending |-> [p EXCEPT ![MinOf(FreePending(p))] = uplink],
               result  |-> RTT_INPROGRESS]

\* what a turn of uplink_mainloop finds when the result is RTT_IDLE or
\* RTT_DONTCHANGE: no check is due or the lock of a complete image is taken
\* (wait), the image is complete (complete), a measurement is asked for and
\* the keep-alive is sent (ask) or cannot be sent (asklost)
LinkTurns == {"wait", "complete", "ask", "asklost"}

\* one turn of uplink_mainloop after the sockets were handled, lines
\* 796-863. RTT_DOCHANGE: the socket is changed and the next check is not
\* due. RTT_IDLE or RTT_DONTCHANGE: see LinkTurns
LinkLoop(turn) ==
    /\ linkThread = "loop"
    /\ IF link.rttTestResult = RTT_DOCHANGE
       THEN /\ link' = [link EXCEPT !.rttTestResult = RTT_IDLE,
                                    !.fd = link.betterFd,
                                    !.betterFd = -1]
            /\ openSocks' = openSocks \ {link.fd}
            /\ UNCHANGED <<pending, linkThread>>
       ELSE IF turn # "wait" /\ link.rttTestResult \in {RTT_IDLE, RTT_DONTCHANGE}
            THEN IF turn = "complete"
                 THEN /\ linkThread' = "cleanup"
                      /\ link' = [link EXCEPT !.fd = -1]
                      /\ openSocks' = openSocks \ {link.fd}
                      /\ UNCHANGED pending
                 ELSE LET r == altservers_findUplink(pending, link.rttTestResult, "uplink")
                      IN  /\ pending' = r.pending
                          /\ link' = [link EXCEPT
                                         !.rttTestResult = r.result,
                                         !.asked = TRUE,
                                         !.fd = IF turn = "ask" THEN link.fd ELSE -1]
                          /\ openSocks' = IF turn = "ask"
                                          THEN openSocks
                                          ELSE openSocks \ {link.fd}
                          /\ UNCHANGED linkThread
            ELSE UNCHANGED <<link, openSocks, pending, linkThread>>
    /\ UNCHANGED <<consumeLock, altThread, removed, notRttVars>>

\* epoll reports an error on link->fd, or the receive fails: the socket is
\* closed
LinkFdLost ==
    /\ linkThread = "loop"
    /\ link.fd # -1
    /\ link' = [link EXCEPT !.fd = -1]
    /\ openSocks' = openSocks \ {link.fd}
    /\ UNCHANGED <<pending, consumeLock, linkThread, altThread, removed, notRttVars>>

\* _shutdown or link->shutdown ends the loop; cleanup closes link->fd
LinkStop ==
    /\ linkThread = "loop"
    /\ linkThread' = "cleanup"
    /\ link' = [link EXCEPT !.fd = -1]
    /\ openSocks' = openSocks \ {link.fd}
    /\ UNCHANGED <<pending, consumeLock, altThread, removed, notRttVars>>

\* the end of cleanup: once no measurement is in progress betterFd is closed
LinkCleanup ==
    /\ linkThread = "cleanup"
    /\ link.rttTestResult # RTT_INPROGRESS
    /\ linkThread' = "done"
    /\ openSocks' = openSocks \ {link.betterFd}
    /\ UNCHANGED <<pending, consumeLock, link, altThread, removed, notRttVars>>

\* altservers_findUplink of another uplink takes a free slot
OtherFind ==
    /\ FreePending(pending) # {}
    /\ pending' = [pending EXCEPT ![MinOf(FreePending(pending))] = "other"]
    /\ UNCHANGED <<consumeLock, link, linkThread, altThread, openSocks, removed,
                   notRttVars>>

\* mutant: altservers_removeUplink does not take pendingLockConsume
RemoveMayEnter_nolock(owner) == TRUE

\* mutex_lock( &pendingLockConsume ) returns
RemoveMayEnter(owner) == owner = "none"

\* altservers_removeUplink for the uplink, whose thread has left its loop
altservers_removeUplink ==
    /\ ~removed
    /\ linkThread # "loop"
    /\ RemoveMayEnter(consumeLock)
    /\ removed' = TRUE
    /\ pending' = [i \in DOMAIN pending |-> IF pending[i] = "uplink" THEN "NULL" ELSE pending[i]]
    /\ link' = IF \E i \in DOMAIN pending : pending[i] = "uplink"
               THEN [link EXCEPT !.rttTestResult = RTT_NOT_REACHABLE, !.asked = FALSE]
               ELSE link
    /\ UNCHANGED <<consumeLock, linkThread, altThread, openSocks, notRttVars>>

\* signal_wait returns: the loop over pending[] starts
AltWake ==
    /\ altThread.pc = "wait"
    /\ \E i \in DOMAIN pending : pending[i] # "NULL"
    /\ altThread' = [altThread EXCEPT !.pc = "sweep", !.itLink = 0]
    /\ UNCHANGED <<pending, consumeLock, link, linkThread, openSocks, removed,
                   notRttVars>>

\* lines 435-441: the slot is looked at before pendingLockConsume is taken
AltSlot ==
    /\ altThread.pc = "sweep"
    /\ altThread' =
          IF altThread.itLink >= SERVER_MAX_PENDING_ALT_CHECKS
          THEN [altThread EXCEPT !.pc = "wait", !.itLink = 0]
          ELSE IF pending[altThread.itLink] = "NULL"
               THEN [altThread EXCEPT !.itLink = @ + 1]
               ELSE [altThread EXCEPT !.pc = "lock"]
    /\ UNCHANGED <<pending, consumeLock, link, linkThread, openSocks, removed,
                   notRttVars>>

\* lines 442-461: with pendingLockConsume the slot is read again. An empty
\* slot is skipped; the pass for another uplink is not looked at and only
\* empties the slot; if the image is gone (gone) the uplink gets
\* RTT_NOT_REACHABLE; else the pass starts
AltLock(gone) ==
    /\ altThread.pc = "lock"
    /\ consumeLock = "none"
    /\ LET uplink == pending[altThread.itLink]
       IN  IF uplink = "uplink" /\ ~gone
           THEN /\ consumeLock' = "probe"
                /\ altThread' = [AltWaiting EXCEPT !.pc = "probing",
                                                   !.itLink = altThread.itLink,
                                                   !.itAlt = 1]
                /\ UNCHANGED <<pending, link>>
           ELSE /\ pending' = [pending EXCEPT ![altThread.itLink] = "NULL"]
                /\ altThread' = [altThread EXCEPT !.pc = "sweep", !.itLink = @ + 1]
                /\ link' = IF uplink = "uplink"
                           THEN [link EXCEPT !.rttTestResult = RTT_NOT_REACHABLE,
                                             !.asked = FALSE]
                           ELSE link
                /\ UNCHANGED consumeLock
    /\ UNCHANGED <<linkThread, openSocks, removed, notRttVars>>

\* lines 529-534: the average, with the penalty for the current server
PenalizedAvg(avg, isCurrent, cycleDetected, uplinkFd) ==
    IF (cycleDetected \/ uplinkFd = -1) /\ isCurrent THEN (avg * 2) + 50000 ELSE avg

\* mutant: the socket of the best server so far stays open when a better
\* server is found
SocksAfterReply_keep(open, bestSock, sock, asCurrent, better) ==
    IF ~asCurrent /\ better THEN open \cup {sock} ELSE open

\* lines 536-550: the sockets that are open after a server replied on sock
SocksAfterReply(open, bestSock, sock, asCurrent, better) ==
    IF ~asCurrent /\ better THEN (open \ {bestSock}) \cup {sock} ELSE open

\* lines 480-559: one server of the pass. It does not reply, or fails, and
\* its socket is closed; or it replies and its average is avg
AltServer(replied, avg, cycleDetected) ==
    /\ altThread.pc = "probing"
    /\ altThread.itAlt <= Len(PassServers)
    /\ IF replied
       THEN LET sock == NewSock(openSocks)
                isCurrent == PassServers[altThread.itAlt] = "current"
                a == PenalizedAvg(avg, isCurrent, cycleDetected, link.fd)
                asCurrent == link.fd # -1 /\ isCurrent
                better == a < altThread.bestRtt
            IN  /\ openSocks' = SocksAfterReply(openSocks, altThread.bestSock, sock,
                                                asCurrent, better)
                /\ altThread' =
                      [altThread EXCEPT
                          !.itAlt = @ + 1,
                          !.currentRtt = IF asCurrent THEN a ELSE @,
                          !.bestSock = IF ~asCurrent /\ better THEN sock ELSE @,
                          !.bestRtt = IF ~asCurrent /\ better THEN a ELSE @,
                          !.candidateReplied = @ \/ ~asCurrent,
                          !.currentMeasured = @ \/ asCurrent]
       ELSE /\ altThread' = [altThread EXCEPT !.itAlt = @ + 1]
            /\ UNCHANGED openSocks
    /\ UNCHANGED <<pending, consumeLock, link, linkThread, removed, notRttVars>>

\* mutant: a server is changed for only when the uplink has no socket
PassVerdict_nosock(bestSock, uplinkFd, bestRtt, currentRtt) ==
    IF bestSock # -1 /\ uplinkFd = -1
    THEN RTT_DOCHANGE
    ELSE IF bestSock = -1 /\ currentRtt = RTT_UNREACHABLE
         THEN RTT_NOT_REACHABLE
         ELSE RTT_DONTCHANGE

\* lines 561, 576, 581: what the pass found
PassVerdict(bestSock, uplinkFd, bestRtt, currentRtt) ==
    IF bestSock # -1
       /\ (uplinkFd = -1 \/ (bestRtt < 10000000 /\ RTT_THRESHOLD_FACTOR(currentRtt) > bestRtt))
    THEN RTT_DOCHANGE
    ELSE IF bestSock = -1 /\ currentRtt = RTT_UNREACHABLE
         THEN RTT_NOT_REACHABLE
         ELSE RTT_DONTCHANGE

\* lines 561-592: all servers are measured, the result is written
AltVerdict ==
    /\ altThread.pc = "probing"
    /\ altThread.itAlt > Len(PassServers)
    /\ LET v == PassVerdict(altThread.bestSock, link.fd, altThread.bestRtt,
                            altThread.currentRtt)
       IN  /\ link' = [link EXCEPT
                          !.rttTestResult = v,
                          !.asked = FALSE,
                          !.betterFd = IF v = RTT_DOCHANGE THEN altThread.bestSock ELSE @]
           /\ openSocks' = IF v = RTT_DOCHANGE
                           THEN openSocks
                           ELSE openSocks \ {altThread.bestSock}
    /\ altThread' = [AltWaiting EXCEPT !.pc = "release", !.itLink = altThread.itLink]
    /\ UNCHANGED <<pending, consumeLock, linkThread, removed, notRttVars>>

\* lines 593-599: the slot is emptied, pendingLockConsume is released
AltRelease ==
    /\ altThread.pc = "release"
    /\ pending' = [pending EXCEPT ![altThread.itLink] = "NULL"]
    /\ consumeLock' = "none"
    /\ altThread' = [altThread EXCEPT !.pc = "sweep", !.itLink = @ + 1]
    /\ UNCHANGED <<link, linkThread, openSocks, removed, notRttVars>>

\* the steps of altservers_main
AltNext ==
    \/ AltWake
    \/ AltSlot
    \/ \E gone \in BOOLEAN : AltLock(gone)
    \/ \E replied, cycleDetected \in BOOLEAN : \E avg \in RttValues :
          AltServer(replied, avg, cycleDetected)
    \/ AltVerdict
    \/ AltRelease

\* a turn of uplink_mainloop when a check is due and the image is incomplete
LinkAsk == LinkLoop("ask")

RttNext ==
    \/ \E turn \in LinkTurns : LinkLoop(turn)
    \/ LinkFdLost
    \/ LinkStop
    \/ LinkCleanup
    \/ OtherFind
    \/ altservers_removeUplink
    \/ AltNext

-----------------------------------------------------------------------------
(* altservers.c: the list of alt servers for an uplink                     *)

\* a server that failed more often than this is left out for a while
SERVER_BAD_UPLINK_THRES == 1

\* the seconds for which such a server is left out after its last failure
SERVER_BAD_UPLINK_IGNORE == 2

\* the slots of altServers[]
AltSlots == 0 .. 2

\* the calls of altservers_getListForUplink in a behaviour
MaxLists == 1

\* the values of size
ListSizes == {0, 1, 2, 4}

\* an empty slot: host.type == 0
EmptyAlt == [type |-> 0, isPrivate |-> FALSE, isClientOnly |-> FALSE, numFails |-> 0,
             age |-> 0, id |-> 0]

\* a server for uplinks that failed n times, the last time a seconds ago:
\* a is timing_diff( &srv->lastFail, &now )
UplinkServer(p, n, a) ==
    [type |-> 1, isPrivate |-> p, isClientOnly |-> FALSE, numFails |-> n, age |-> a,
     id |-> 0]

\* the entries of the table: an empty slot, a server for clients only,
\* servers that did not fail, that failed a few times, and that failed
\* often, not long ago or long ago
AltEntries ==
    {EmptyAlt,
     [EmptyAlt EXCEPT !.type = 1, !.isClientOnly = TRUE],
     UplinkServer(FALSE, 0, 0),
     UplinkServer(TRUE, 0, 0),
     UplinkServer(TRUE, SERVER_BAD_UPLINK_THRES, 0),
     UplinkServer(TRUE, SERVER_BAD_UPLINK_THRES + 1, 0),
     UplinkServer(TRUE, SERVER_BAD_UPLINK_THRES + 1, SERVER_BAD_UPLINK_IGNORE),
     UplinkServer(FALSE, SERVER_BAD_UPLINK_THRES + 1, 0)}

\* every entry gets the number of its first slot as the name of its host
NamedTable(t) == [k \in AltSlots |-> [t[k] EXCEPT !.id = k + 1]]

NoList == [called |-> FALSE, calls |-> 0, output |-> <<>>, size |-> 0, emergency |-> FALSE,
           before |-> NamedTable([k \in AltSlots |-> EmptyAlt])]

\* the table before altservers_add
ListIdle ==
    /\ altServers = NamedTable([k \in AltSlots |-> EmptyAlt])
    /\ numAltServers = 0
    /\ proxyPrivateOnly = FALSE
    /\ lastList = NoList


\* lines 247-254: the first server changes places with the one at rnd
FlipFirst(t, num, rnd) ==
    IF num > 1
    THEN [t EXCEPT ![0] = t[rnd], ![rnd] = t[0]]
    ELSE t

\* lines 260-262: the slot is not empty, is private if only private servers
\* are wanted, and is not for clients only
Considered(srv, privateOnly) ==
    /\ srv.type # 0
    /\ ~(privateOnly /\ ~srv.isPrivate)
    /\ ~srv.isClientOnly

\* mutant: no failing server is left out
TooBad_never(srv, emergency) == FALSE

\* lines 269-270: the server failed too often and not long ago
TooBad(srv, emergency) ==
    /\ ~emergency
    /\ srv.numFails > SERVER_BAD_UPLINK_THRES
    /\ srv.age < SERVER_BAD_UPLINK_IGNORE

\* the loop of lines 258-275 from i on: the output and the table
RECURSIVE ListLoop(_, _, _, _, _, _, _)
ListLoop(t, num, size, emergency, privateOnly, i, out) ==
    IF i >= num * 2 THEN [output |-> out, table |-> t]
    ELSE LET k == i % num
             srv == t[k]
             first == i < num
             skip == \/ ~Considered(srv, privateOnly)
                     \/ first /\ srv.numFails > 0
                     \/ ~first /\ srv.numFails = 0
                     \/ ~first /\ TooBad(srv, emergency)
         IN  IF skip
             THEN ListLoop(t, num, size, emergency, privateOnly, i + 1, out)
             ELSE LET t2 == IF ~first /\ ~emergency
                            THEN [t EXCEPT ![k].numFails = @ - 1]
                            ELSE t
                      out2 == Append(out, srv.id)
                  IN  IF Len(out2) >= size
                      THEN [output |-> out2, table |-> t2]
                      ELSE ListLoop(t2, num, size, emergency, privateOnly, i + 1, out2)

\* altservers_getListForUplink: the hosts written to output[] and the table
\* after the call; rnd is the slot that rand() picks
altservers_getListForUplink(t, num, size, emergency, privateOnly, rnd) ==
    IF size <= 0 THEN [output |-> <<>>, table |-> t]
    ELSE ListLoop(FlipFirst(t, num, rnd), num, IF size > num THEN num ELSE size,
                  emergency, privateOnly, 0, <<>>)

\* a call of altservers_getListForUplink
GetListForUplink(size, emergency, rnd) ==
    /\ lastList.calls < MaxLists
    /\ rnd < numAltServers \/ rnd = 1
    /\ LET r == altservers_getListForUplink(altServers, numAltServers, size, emergency,
                                            proxyPrivateOnly, rnd)
       IN  /\ altServers' = r.table
           /\ lastList' = [called |-> TRUE, calls |-> lastList.calls + 1, output |-> r.output, size |-> size,
                           emergency |-> emergency, before |-> altServers]
    /\ UNCHANGED <<numAltServers, proxyPrivateOnly, notListVars>>

ListNext ==
    \E size \in ListSizes, emergency \in BOOLEAN, rnd \in {1, 2} :
        GetListForUplink(size, emergency, rnd)

-----------------------------------------------------------------------------
(* image_updateCachemap: the hash blocks that are handed to the checker    *)

\* image->realFilesize and image->virtualFilesize: one hash block and two
\* blocks, the last of them not whole
HashRealFilesize == HASH_BLOCK_SIZE + DNBD3_BLOCK_SIZE + 100

HashVirtualFilesize == AlignUp(HashRealFilesize)

\* the map byte with the last blocks of hash block 0, and the map byte of
\* hash block 1
LastByteOfFirst == (HASH_BLOCK_SIZE \div (DNBD3_BLOCK_SIZE * BITS_PER_BYTE)) - 1

\* the values of these two bytes at the start; all other bytes are 0xff
MapTails == {<<63, 0>>, <<127, 1>>, <<127, 3>>, <<255, 0>>, <<255, 1>>, <<255, 3>>}

MapWithTail(t) ==
    [y \in 0 .. IMGSIZE_TO_MAPBYTES(HashVirtualFilesize) - 1 |->
        IF y = LastByteOfFirst THEN t[1]
        ELSE IF y = LastByteOfFirst + 1 THEN t[2]
        ELSE 255]

\* the ends of the ranges that are marked
MarkPoints ==
    {HASH_BLOCK_SIZE - (2 * DNBD3_BLOCK_SIZE), HASH_BLOCK_SIZE - DNBD3_BLOCK_SIZE,
     HASH_BLOCK_SIZE - 100, HASH_BLOCK_SIZE, HASH_BLOCK_SIZE + DNBD3_BLOCK_SIZE,
     HASH_BLOCK_SIZE + (2 * DNBD3_BLOCK_SIZE)}

HashMarks == {r \in MarkPoints \X MarkPoints : r[1] < r[2]}

MarkerIdle ==
    [pc |-> "idle", start |-> 0, end |-> 0, pos |-> 0, hashEnd |-> 0,
     setNewBlocks |-> FALSE, passed |-> {}]

\* no call of image_updateCachemap is running
HashIdle ==
    /\ hbMap = MapWithTail(<<255, 3>>)
    /\ hbLock = "none"
    /\ hbCrc = FALSE
    /\ marker = MarkerIdle


\* mutant: the last hash block, which is shorter, is never complete
image_isHashBlockComplete_whole(cacheMap, block, realFilesize) ==
    IF cacheMap = NULL THEN TRUE
    ELSE /\ (block + 1) * HASH_BLOCK_SIZE <= realFilesize
         /\ LET startCacheIndex ==
                    (block * HASH_BLOCK_SIZE) \div (DNBD3_BLOCK_SIZE * BITS_PER_BYTE)
                endCacheIndex ==
                    startCacheIndex + (HASH_BLOCK_SIZE \div (DNBD3_BLOCK_SIZE * BITS_PER_BYTE))
            IN  \A i \in startCacheIndex .. endCacheIndex - 1 : cacheMap[i] = 255

\* image_isHashBlockComplete, lines 627-650
image_isHashBlockComplete(cacheMap, block, realFilesize) ==
    IF cacheMap = NULL THEN TRUE
    ELSE IF (block + 1) * HASH_BLOCK_SIZE <= realFilesize
         THEN LET startCacheIndex ==
                      (block * HASH_BLOCK_SIZE) \div (DNBD3_BLOCK_SIZE * BITS_PER_BYTE)
                  endCacheIndex ==
                      startCacheIndex + (HASH_BLOCK_SIZE \div (DNBD3_BLOCK_SIZE * BITS_PER_BYTE))
              IN  \A i \in startCacheIndex .. endCacheIndex - 1 : cacheMap[i] = 255
         ELSE \A n \in 0 .. ((realFilesize - 1) \div DNBD3_BLOCK_SIZE)
                            - ((block * HASH_BLOCK_SIZE) \div DNBD3_BLOCK_SIZE) :
                 LET mapPos == (block * HASH_BLOCK_SIZE) + (n * DNBD3_BLOCK_SIZE)
                 IN  BitIsSet(cacheMap[mapPos \div (BITS_PER_BYTE * DNBD3_BLOCK_SIZE)],
                              (mapPos \div DNBD3_BLOCK_SIZE) % BITS_PER_BYTE)

\* lines 121-122: the range is widened to the borders of hash blocks
HashStart(start) == (start \div HASH_BLOCK_SIZE) * HASH_BLOCK_SIZE

HashEnd(end) == ((end + HASH_BLOCK_SIZE - 1) \div HASH_BLOCK_SIZE) * HASH_BLOCK_SIZE

\* lines 72-119: the uplink thread calls image_updateCachemap( image, start,
\* end, true ). The range is rounded, the bits are set with image->lock
\* held; the call ends there if no bit was new or the image has no crc32
\* list
MarkBegin(start, end) ==
    /\ marker.pc \in {"idle", "done"}
    /\ hbLock = "none"
    /\ LET s == MarkStart(start, TRUE)
           e == MarkEnd(end, TRUE)
           map == image_updateCachemap(hbMap, HashVirtualFilesize, start, end, TRUE)
           setNewBlocks == map # hbMap
       IN  /\ hbMap' = map
           /\ IF s < e /\ setNewBlocks /\ hbCrc
              THEN /\ hbLock' = "mark"
                   /\ marker' = [pc |-> "loop", start |-> s, end |-> e,
                                 pos |-> HashStart(s), hashEnd |-> HashEnd(e),
                                 setNewBlocks |-> TRUE, passed |-> {}]
              ELSE /\ hbLock' = "none"
                   /\ marker' = [MarkerIdle EXCEPT !.pc = "done", !.start = s, !.end = e,
                                                   !.setNewBlocks = setNewBlocks]
    /\ UNCHANGED <<hbCrc, notHashVars>>

\* lines 124-135: one turn of the loop over the hash blocks; a complete
\* hash block is handed over with image->lock released
MarkHashBlock ==
    /\ marker.pc = "loop"
    /\ IF marker.pos >= marker.hashEnd \/ hbMap = NULL
       THEN /\ marker' = [marker EXCEPT !.pc = "done"]
            /\ hbLock' = "none"
       ELSE IF image_isHashBlockComplete(hbMap, marker.pos \div HASH_BLOCK_SIZE,
                                         HashRealFilesize)
            THEN /\ marker' = [marker EXCEPT !.pc = "check"]
                 /\ hbLock' = "none"
            ELSE /\ marker' = [marker EXCEPT !.pos = @ + HASH_BLOCK_SIZE]
                 /\ UNCHANGED hbLock
    /\ UNCHANGED <<hbMap, hbCrc, notHashVars>>

\* lines 131-134: integrity_check( image, block ) returns, image->lock is
\* taken again
MarkChecked ==
    /\ marker.pc = "check"
    /\ hbLock = "none"
    /\ hbLock' = "mark"
    /\ marker' = [marker EXCEPT !.pc = "loop",
                                !.passed = @ \cup {marker.pos \div HASH_BLOCK_SIZE},
                                !.pos = @ + HASH_BLOCK_SIZE]
    /\ UNCHANGED <<hbMap, hbCrc, notHashVars>>

\* integrity_main found a wrong checksum for hash block 0 and clears it:
\* image_updateCachemap( image, 0, HASH_BLOCK_SIZE, false ). A map that
\* was freed is allocated again
CheckerClears ==
    /\ hbLock = "none"
    /\ hbCrc
    /\ hbMap' = [y \in DOMAIN FilledMap(HashVirtualFilesize, 255) |->
                    IF y <= LastByteOfFirst THEN 0
                    ELSE IF hbMap = NULL THEN 255 ELSE hbMap[y]]
    /\ UNCHANGED <<hbLock, hbCrc, marker, notHashVars>>

\* the uplink thread calls image_isComplete between two replies
HashIsComplete ==
    /\ marker.pc = "done"
    /\ hbLock = "none"
    /\ hbMap' = image_isComplete(hbMap, HashVirtualFilesize)[2]
    /\ marker' = MarkerIdle
    /\ UNCHANGED <<hbLock, hbCrc, notHashVars>>

HashNext ==
    \/ \E r \in HashMarks : MarkBegin(r[1], r[2])
    \/ MarkHashBlock
    \/ MarkChecked
    \/ CheckerClears
    \/ HashIsComplete

-----------------------------------------------------------------------------
(* image_getOrLoad of a proxy: loadImageProxy                              *)

\* the revisions of the image that exist, here or on the uplink servers
ProxyRids == 1 .. 3

\* the revisions that are asked for
ProxyAsked == {0, 2}

\* what an uplink server does: it does not answer (the connection or the
\* reply fails before remoteRid is written), or it answers with a rid, 0
\* for an image it does not have; cloneOk tells whether the checks of the
\* size and the name, image_ensureDiskSpace and image_clone all succeed
ProxyReplies ==
    {[answer |-> FALSE, rid |-> 0, cloneOk |-> FALSE]}
    \cup {[answer |-> TRUE, rid |-> r, cloneOk |-> c] : r \in ProxyRids \cup {0}, c \in BOOLEAN}

\* the servers of a call, in the order in which they answer
ProxyServers == {<<>>} \cup {<<a>> : a \in ProxyReplies}
                \cup {<<a, b>> : a \in ProxyReplies, b \in ProxyReplies}

HighestRid(S) == IF S = {} THEN 0 ELSE CHOOSE x \in S : \A y \in S : y <= x

NoLoad == [called |-> FALSE, revision |-> 0, before |-> {}, offers |-> {}, ret |-> 0,
           cloned |-> 0]

\* no image is loaded, nobody asks
LoadIdle ==
    /\ localRids = {}
    /\ lastLoad = NoLoad

\* image_get( name, revision, ... ) on the loaded revisions of the name:
\* the rid of the image that is returned, 0 for NULL
LoadedImage(local, revision) ==
    IF revision = 0 THEN HighestRid(local)
    ELSE IF revision \in local THEN revision ELSE 0

\* lines 1228-1245: the server is not cloned from
CloneRefused(r, revision, imageRid) ==
    \/ r.rid = 0
    \/ revision # 0 /\ r.rid # revision
    \/ revision = 0 /\ imageRid # 0 /\ imageRid >= r.rid
    \/ ~r.cloneOk

\* lines 1207-1257: the loop over the servers from server i on: remoteRid
\* after the loop and the rid that was cloned, 0 if none was
RECURSIVE CloneLoop(_, _, _, _, _)
CloneLoop(servers, i, revision, imageRid, remoteRid) ==
    IF i > Len(servers) THEN [remoteRid |-> remoteRid, cloned |-> 0]
    ELSE IF ~servers[i].answer
         THEN CloneLoop(servers, i + 1, revision, imageRid, remoteRid)
         ELSE IF CloneRefused(servers[i], revision, imageRid)
              THEN CloneLoop(servers, i + 1, revision, imageRid, servers[i].rid)
              ELSE [remoteRid |-> servers[i].rid, cloned |-> servers[i].rid]

\* loadImageProxy: the rid of the image that is returned, the loaded
\* revisions after the call and the rid that was cloned; recent tells that
\* remoteCloneCache has an entry for the name and rid that is not due
loadImageProxy(local, revision, recent, servers) ==
    LET image == IF revision = 0 THEN LoadedImage(local, revision) ELSE 0
    IN  IF recent THEN [ret |-> image, local |-> local, cloned |-> 0]
        ELSE IF revision # 0 /\ LoadedImage(local, revision) # 0
             THEN [ret |-> revision, local |-> local, cloned |-> 0]
             ELSE LET c == CloneLoop(servers, 1, revision, image, revision)
                      local2 == IF c.cloned # 0 THEN local \cup {c.cloned} ELSE local
                  IN  [ret |-> LoadedImage(local2, c.remoteRid), local |-> local2,
                       cloned |-> c.cloned]

\* image_getOrLoad of a proxy, for a name that passes the sanity check
image_getOrLoad(local, revision, recent, servers) ==
    IF revision # 0 /\ LoadedImage(local, revision) # 0
    THEN [ret |-> revision, local |-> local, cloned |-> 0]
    ELSE loadImageProxy(local, revision, recent, servers)

\* a client asks for the image
GetOrLoad(revision, recent, servers) ==
    /\ LET r == image_getOrLoad(localRids, revision, recent, servers)
       IN  /\ localRids' = r.local
           /\ lastLoad' = [called |-> TRUE, revision |-> revision, before |-> localRids,
                           offers |-> IF recent THEN {}
                                      ELSE {servers[i].rid : i \in {j \in DOMAIN servers :
                                                                      servers[j].answer}},
                           ret |-> r.ret, cloned |-> r.cloned]
    /\ UNCHANGED notLoadVars

LoadNext ==
    \E revision \in ProxyAsked, recent \in BOOLEAN, servers \in ProxyServers :
        GetOrLoad(revision, recent, servers)

(***************************************************************************)
(* connection.c of the FUSE client: the list of pending requests           *)
(***************************************************************************)

\* how many reads FUSE hands to connection_read
MaxRequests == 3

FuseRequests == 1 .. MaxRequests

\* the requests of a list
Listed(list) == {list[k] : k \in DOMAIN list}

\* nothing was asked, there is no connection
FuseIdle ==
    /\ requests = <<>>
    /\ switchQueue = <<>>
    /\ connSockFd = -1
    /\ onWire = {}
    /\ handed = {}
    /\ fuseReplies = [r \in FuseRequests |-> 0]
    /\ requeued = {}

LastIdle == ListIdle /\ HashIdle /\ LoadIdle /\ FuseIdle

\* removeRequest: the list without the request; the caller gets NULL when
\* the request is not in the list
removeRequest(list, r) == SelectSeq(list, LAMBDA x : x # r)

\* connection_read: enqueueRequest at the tail, then dnbd3_get_block on
\* connection.sockFd when there is one; a failed send ends the connection
connection_read(list, sock, sent, r, sendOk) ==
    [requests |-> Append(list, r),
     sockFd |-> IF sock # -1 /\ ~sendOk THEN -1 ELSE sock,
     onWire |-> IF sock = -1 THEN sent ELSE IF sendOk THEN sent \cup {r} ELSE {}]

\* FUSE hands a new read to connection_read
FuseRead(r, sendOk) ==
    /\ r \notin handed
    /\ handed' = handed \cup {r}
    /\ LET cr == connection_read(requests, connSockFd, onWire, r, sendOk)
       IN /\ requests' = cr.requests
          /\ connSockFd' = cr.sockFd
          /\ onWire' = cr.onWire
    /\ UNCHANGED <<switchQueue, fuseReplies, requeued, notFuseVars>>

\* connection_receiveThreadMain, a CMD_GET_BLOCK reply for handle r: without
\* a matching request the payload is thrown away; with one the payload is
\* read and the request is answered and freed, or, after a short read, given
\* to connection_read again before the socket is given up at fail
ReceiveBlock(r, payloadOk, sendOk) ==
    /\ connSockFd # -1
    /\ r \in onWire
    /\ IF r \notin Listed(requests)
       THEN /\ IF payloadOk
               THEN /\ onWire' = onWire \ {r}
                    /\ UNCHANGED connSockFd
               ELSE /\ onWire' = {}
                    /\ connSockFd' = -1
            /\ UNCHANGED <<requests, fuseReplies>>
       ELSE IF payloadOk
       THEN /\ requests' = removeRequest(requests, r)
            /\ fuseReplies' = [fuseReplies EXCEPT ![r] = @ + 1]
            /\ onWire' = onWire \ {r}
            /\ UNCHANGED connSockFd
       ELSE LET cr == connection_read(removeRequest(requests, r), connSockFd,
                                      onWire \ {r}, r, sendOk)
            IN /\ requests' = cr.requests
               /\ connSockFd' = -1
               /\ onWire' = {}
               /\ UNCHANGED fuseReplies
    /\ UNCHANGED <<switchQueue, handed, requeued, notFuseVars>>

\* connection_receiveThreadMain: reading a reply header fails, goto fail
ReceiveFail ==
    /\ connSockFd # -1
    /\ connSockFd' = -1
    /\ onWire' = {}
    /\ UNCHANGED <<requests, switchQueue, handed, fuseReplies, requeued, notFuseVars>>

\* switchConnection up to the unlock of sendMutex: the old socket is shut
\* down; when getpeername succeeds the new socket is taken and the whole
\* list goes to the local queue; requestAltServers may lose the socket again
switchConnection(list, peerOk, altsOk) ==
    [requests |-> IF peerOk THEN <<>> ELSE list,
     queue |-> IF peerOk THEN list ELSE <<>>,
     sockFd |-> IF peerOk /\ altsOk THEN 0 ELSE -1]

\* probeAltServers with one server that answers the probe. In panic mode
\* (no connection, or a request that waits too long) the probe asks for the
\* block of the head request and removes that request from the list: after
\* a short read of the payload the request goes to connection_read again,
\* after a full read nothing more is done with it. Then, in panic mode or
\* for a better server, the connection is switched.
ProbeAltServers(late, recvOk, better, peerOk, altsOk) ==
    /\ switchQueue = <<>>
    /\ LET panic == connSockFd = -1 \/ (late /\ requests # <<>>)
           taken == panic /\ requests # <<>>
       IN IF taken /\ ~recvOk
          THEN LET cr == connection_read(Tail(requests), connSockFd, onWire,
                                         Head(requests), TRUE)
               IN /\ requests' = cr.requests
                  /\ UNCHANGED <<switchQueue, connSockFd, onWire>>
          ELSE IF panic \/ better
          THEN LET sw == switchConnection(IF taken THEN Tail(requests) ELSE requests,
                                          peerOk, altsOk)
               IN /\ requests' = sw.requests
                  /\ switchQueue' = sw.queue
                  /\ connSockFd' = sw.sockFd
                  /\ onWire' = {}
          ELSE UNCHANGED <<requests, switchQueue, connSockFd, onWire>>
    /\ UNCHANGED <<handed, fuseReplies, requeued, notFuseVars>>

\* switchConnection, "resend queue": every request of the local queue is
\* enqueued again and sent on connection.sockFd; the send of request
\* number failAt fails (0: none) and ends the connection
SwitchResend(failAt) ==
    /\ switchQueue # <<>>
    /\ failAt <= Len(switchQueue)
    /\ requests' = requests \o switchQueue
    /\ switchQueue' = <<>>
    /\ onWire' = IF connSockFd = -1 \/ failAt # 0 THEN {}
                 ELSE onWire \cup Listed(switchQueue)
    /\ connSockFd' = IF failAt # 0 /\ connSockFd # -1 THEN -1 ELSE connSockFd
    /\ requeued' = requeued \cup Listed(switchQueue)
    /\ UNCHANGED <<handed, fuseReplies, notFuseVars>>

FuseNext ==
    \/ \E r \in FuseRequests : \E sendOk \in BOOLEAN : FuseRead(r, sendOk)
    \/ \E r \in FuseRequests : \E payloadOk, sendOk \in BOOLEAN :
          ReceiveBlock(r, payloadOk, sendOk)
    \/ ReceiveFail
    \/ \E late, recvOk, better, peerOk, altsOk \in BOOLEAN :
          ProbeAltServers(late, recvOk, better, peerOk, altsOk)
    \/ \E failAt \in 0 .. MaxRequests : SwitchResend(failAt)

\* the sections above at rest
FirstIdle == StartIdle /\ GetIdle /\ ProbeIdle /\ LockIdle

LaterIdle == WorkIdle /\ IntegrityIdle /\ RttIdle /\ LastIdle

\* the parts of the server that a specification does not look at
RestIdle == FirstIdle /\ LaterIdle

\* the image registry, the cache map and the uplink queue at rest
OldIdle ==
    /\ RegInit
    /\ MapIdle
    /\ UplinkInit
    /\ workload = 1

UplinkStartInit ==
    /\ OldIdle
    /\ StartInit
    /\ GetIdle
    /\ ProbeIdle
    /\ LockIdle
    /\ LaterIdle

ImageGetInit ==
    /\ OldIdle
    /\ StartIdle
    /\ GetInit
    /\ ProbeIdle
    /\ LockIdle
    /\ LaterIdle

SpecGet == ImageGetInit /\ [][GetNext]_vars

AltProbeInit ==
    /\ OldIdle
    /\ StartIdle
    /\ GetIdle
    /\ ProbeInit
    /\ LockIdle
    /\ LaterIdle

ServerLocksInit ==
    /\ OldIdle
    /\ StartIdle
    /\ GetIdle
    /\ ProbeIdle
    /\ LockInit
    /\ LaterIdle

ImageCheckInit ==
    /\ OldIdle
    /\ FirstIdle
    /\ WorkInit
    /\ IntegrityIdle
    /\ RttIdle
    /\ LastIdle

IntegrityInit ==
    /\ OldIdle
    /\ FirstIdle
    /\ WorkIdle
    /\ IntegrityIdle
    /\ RttIdle
    /\ LastIdle

SpecIntegrity == IntegrityInit /\ [][IntegrityNext]_vars

RttInit ==
    /\ OldIdle
    /\ FirstIdle
    /\ WorkIdle
    /\ IntegrityIdle
    /\ RttIdle
    /\ LastIdle

SpecRtt == RttInit /\ [][RttNext]_vars

\* a table of alt servers with any content, after altservers_load
ListInit ==
    /\ OldIdle
    /\ FirstIdle
    /\ WorkIdle
    /\ IntegrityIdle
    /\ RttIdle
    /\ numAltServers \in 0 .. 3
    /\ altServers \in {NamedTable(t) : t \in {g \in [AltSlots -> AltEntries] :
                          \A k \in AltSlots : k >= numAltServers => g[k] = EmptyAlt}}
    /\ proxyPrivateOnly \in BOOLEAN
    /\ lastList = NoList
    /\ HashIdle
    /\ LoadIdle
    /\ FuseIdle

SpecList == ListInit /\ [][ListNext]_vars

\* an image of two hash blocks of which a few blocks are missing, with or
\* without a crc32 list
HashInit ==
    /\ OldIdle
    /\ FirstIdle
    /\ WorkIdle
    /\ IntegrityIdle
    /\ RttIdle
    /\ ListIdle
    /\ hbMap \in {MapWithTail(t) : t \in MapTails}
    /\ hbLock = "none"
    /\ hbCrc \in BOOLEAN
    /\ marker = MarkerIdle
    /\ LoadIdle
    /\ FuseIdle

SpecHash == HashInit /\ [][HashNext]_vars

\* a proxy with any revisions of the image loaded
LoadInit ==
    /\ OldIdle
    /\ FirstIdle
    /\ WorkIdle
    /\ IntegrityIdle
    /\ RttIdle
    /\ ListIdle
    /\ HashIdle
    /\ localRids \in SUBSET ProxyRids
    /\ lastLoad = NoLoad
    /\ FuseIdle

SpecLoad == LoadInit /\ [][LoadNext]_vars

\* a client that is connected, or not yet, with no request pending
FuseInit ==
    /\ OldIdle
    /\ FirstIdle
    /\ WorkIdle
    /\ IntegrityIdle
    /\ RttIdle
    /\ ListIdle
    /\ HashIdle
    /\ LoadIdle
    /\ requests = <<>>
    /\ switchQueue = <<>>
    /\ connSockFd \in {-1, 0}
    /\ onWire = {}
    /\ handed = {}
    /\ fuseReplies = [r \in FuseRequests |-> 0]
    /\ requeued = {}

SpecFuse == FuseInit /\ [][FuseNext]_vars

\* the timer of the uplink comes due again and again, and altservers_main
\* runs
SpecRttFair == RttInit /\ [][RttNext]_vars /\ WF_vars(LinkAsk) /\ WF_vars(AltNext)

SpecCheck == ImageCheckInit /\ [][WorkNext]_vars

SpecLocks == ServerLocksInit /\ [][LockNext]_vars

SpecProbe == AltProbeInit /\ [][ProbeNext]_vars

AltTurnsInit ==
    /\ AltProbeInit
    /\ scenario # "panic"

SpecTurns == AltTurnsInit /\ [][TurnsNext]_vars

SpecStart == UplinkStartInit /\ [][StartNext]_vars

ImagesInit ==
    /\ RegInit
    /\ MapIdle
    /\ UplinkInit
    /\ workload = 1
    /\ RestIdle

SpecImages == ImagesInit /\ [][RegNext]_vars

----
\* an image of two blocks with nothing cached, and its uplink
UplinkImageInit ==
    /\ virtualFilesize = UplinkFilesize
    /\ cache_map = FilledMap(virtualFilesize, 0)
    /\ mark = NoMark
    /\ lastOp = NoOp
    /\ presents = {}
    /\ notPresents = {}
    /\ phase = "set"
    /\ RegInit
    /\ UplinkInit
    /\ workload \in Workloads
    /\ RestIdle

SpecUplink == UplinkImageInit /\ [][UplinkNext]_vars

----
\* uplink_request on a queue with any content

\* the number of slots of the queue that uplink_request is looked at with
RequestSlots == 3

\* the handles of the requests that are in the queue already
QueuedHandles == {2, 3}

\* a queue entry of handle h
Entry(h, status, r) ==
    [status |-> status, from |-> r[1], to |-> r[2], handle |-> h, client |-> ClientOf(h)]

\* the queue, queueLen and the waiting requests are any that uplink_request,
\* uplink_send_requests, uplink_handle_receive and uplink_removeClient
\* leave behind for the handles 2 and 3: each of them has no entry or one
\* entry, New, Pending or Processing, below queueLen, and the slots at and
\* above queueLen are Free
RequestInit ==
    /\ queue \in [0 .. RequestSlots - 1 ->
                    {FreeSlot} \cup {Entry(h, st, r) : h \in QueuedHandles,
                                                      st \in {ULR_NEW, ULR_PENDING, ULR_PROCESSING},
                                                      r \in Ranges}]
    /\ \A i, k \in DOMAIN queue :
          (i # k /\ queue[i].status # ULR_FREE) => queue[i].handle # queue[k].handle
    /\ queueLen \in 0 .. RequestSlots
    /\ \A i \in DOMAIN queue : i >= queueLen => queue[i] = FreeSlot
    /\ req = [h \in Handles |->
                IF \E i \in DOMAIN queue : queue[i].handle = h
                THEN LET i == CHOOSE k \in DOMAIN queue : queue[k].handle = h
                     IN  <<queue[i].from, queue[i].to>>
                ELSE NoReq]
    /\ fd = -1
    /\ betterFd = -1
    /\ sockets = {}
    /\ inflight = {}
    /\ rttTestResult = RTT_IDLE
    /\ shutdown = FALSE
    /\ serverShutdown = FALSE
    /\ signal = FALSE
    /\ up = UpThread("wait")
    /\ wr = NoWrite
    /\ connected = [c \in Clients |-> TRUE]
    /\ lastReq = "none"
    /\ badReply = FALSE
    /\ virtualFilesize = UplinkFilesize
    /\ cache_map = FilledMap(virtualFilesize, 0)
    /\ mark = NoMark
    /\ lastOp = NoOp
    /\ presents = {}
    /\ notPresents = {}
    /\ phase = "set"
    /\ RegInit
    /\ workload \in Workloads
    /\ RestIdle

RequestNext == \E h \in Handles, r \in Ranges : ClientRequest(h, r)

SpecRequest == RequestInit /\ [][RequestNext]_vars

-----------------------------------------------------------------------------
(* Cache-map operations on one image                                       *)

\* virtual sizes: 3, 5, 8 and 9 blocks (one and two map bytes, full and
\* partial last byte)
VirtualSizes == {12288, 20480, 32768, 36864}

\* offsets inside a block that a byte range may start or end at
BlockDeltas == {0, 1, 3072}

\* blocks in which byte ranges start or end off the block border: every
\* block of a small image, the first and the last block of a larger one
UnalignedBlocks(size) ==
    LET n == size \div DNBD3_BLOCK_SIZE
    IN  IF n <= 5 THEN 0 .. n - 1 ELSE {0, n - 1}

Offsets(size) ==
    {b * DNBD3_BLOCK_SIZE : b \in 0 .. size \div DNBD3_BLOCK_SIZE}
        \cup {b * DNBD3_BLOCK_SIZE + d : b \in UnalignedBlocks(size), d \in BlockDeltas}

NumBlocks == virtualFilesize \div DNBD3_BLOCK_SIZE

Blocks == 0 .. NumBlocks - 1

\* block b is marked present in map
BlockBit(map, b) == BitIsSet(map[b \div BITS_PER_BYTE], b % BITS_PER_BYTE)

\* number of bits in which two maps of the image differ (NULL counts as all set)
ChangedBits(before, after) ==
    Cardinality({b \in 0 .. BITS_PER_BYTE * IMGSIZE_TO_MAPBYTES(virtualFilesize) - 1 :
                    (IF before = NULL THEN TRUE ELSE BlockBit(before, b))
                        # (IF after = NULL THEN TRUE ELSE BlockBit(after, b))})

\* image_load: the map is read from the .map file, or absent (complete image)
MapInit ==
    /\ virtualFilesize \in VirtualSizes
    /\ cache_map \in {NULL, FilledMap(virtualFilesize, 0), FilledMap(virtualFilesize, 255)}
    /\ mark = NoMark
    /\ lastOp = NoOp
    /\ presents = {}
    /\ notPresents = {}
    /\ phase = "set"
    /\ RegInit
    /\ UplinkInit
    /\ workload = 1
    /\ RestIdle

\* image_updateCachemap is entered: the asserted preconditions hold
UpdateCachemapCall(start, end, set) ==
    /\ mark = NoMark
    /\ start <= end
    /\ end <= virtualFilesize
    /\ mark' = [start |-> start, end |-> end, set |-> set]
    /\ lastOp' = NoOp
    /\ UNCHANGED <<virtualFilesize, cache_map, presents, notPresents, phase>>
    /\ UNCHANGED notMapVars

\* image_updateCachemap runs under image->lock and returns
UpdateCachemapReturn ==
    /\ mark # NoMark
    /\ cache_map' = image_updateCachemap(cache_map, virtualFilesize, mark.start, mark.end, mark.set)
    /\ lastOp' = [op |-> "updateCachemap", set |-> mark.set, ret |-> FALSE,
                  nonempty |-> mark.start < mark.end,
                  changed |-> ChangedBits(cache_map, cache_map') > 0]
    /\ mark' = NoMark
    /\ UNCHANGED <<virtualFilesize, presents, notPresents, phase>>
    /\ UNCHANGED notMapVars

IsComplete ==
    /\ mark = NoMark
    /\ LET r == image_isComplete(cache_map, virtualFilesize)
       IN  /\ cache_map' = r[2]
           /\ lastOp' = [op |-> "isComplete", set |-> FALSE, ret |-> r[1], nonempty |-> FALSE,
                         changed |-> ChangedBits(cache_map, r[2]) > 0]
    /\ UNCHANGED <<virtualFilesize, mark, presents, notPresents, phase>>
    /\ UNCHANGED notMapVars

MapNext ==
    \/ \E start, end \in Offsets(virtualFilesize), set \in BOOLEAN :
           UpdateCachemapCall(start, end, set)
    \/ UpdateCachemapReturn
    \/ IsComplete

SpecMap == MapInit /\ [][MapNext]_vars

-----------------------------------------------------------------------------
(* Block view of a byte range, used to state the properties                *)

\* block b lies entirely inside [start, end)
BlockInside(b, start, end) ==
    start <= b * DNBD3_BLOCK_SIZE /\ (b + 1) * DNBD3_BLOCK_SIZE <= end

\* block b lies inside the outward-rounded range of [start, end)
BlockInOutward(b, start, end) ==
    AlignDown(start) <= b * DNBD3_BLOCK_SIZE /\ (b + 1) * DNBD3_BLOCK_SIZE <= AlignUp(end)

\* block b shares at least one byte with [start, end)
BlockOverlaps(b, start, end) ==
    b * DNBD3_BLOCK_SIZE < end /\ start < (b + 1) * DNBD3_BLOCK_SIZE

-----------------------------------------------------------------------------
(* Sequences of marks: present marks followed by not-present marks, with   *)
(* pairwise disjoint byte ranges, on an image whose map starts empty       *)

\* at most MaxMarks calls of each kind
MaxMarks == 2

\* virtual sizes of the images that mark sequences run on
MarkSizes == {12288}

\* offsets that the ranges of a mark sequence start or end at
MarkOffsets(size) ==
    {o \in {b * DNBD3_BLOCK_SIZE + d : b \in 0 .. size \div DNBD3_BLOCK_SIZE, d \in {0, 3072}} :
        o <= size}

\* [x, y) and [r[1], r[2]) share no byte (an empty range shares none)
Disjoint(x, y, r) == x = y \/ r[1] = r[2] \/ y <= r[1] \/ r[2] <= x

MarksInit ==
    /\ virtualFilesize \in MarkSizes
    /\ cache_map = FilledMap(virtualFilesize, 0)
    /\ mark = NoMark
    /\ lastOp = NoOp
    /\ presents = {}
    /\ notPresents = {}
    /\ phase = "set"
    /\ RegInit
    /\ UplinkInit
    /\ workload = 1
    /\ RestIdle

\* image_updateCachemap( image, x, y, true )
MarkPresent(x, y) ==
    /\ phase = "set"
    /\ Cardinality(presents) < MaxMarks
    /\ x <= y
    /\ \A r \in presents : Disjoint(x, y, r)
    /\ cache_map' = image_updateCachemap(cache_map, virtualFilesize, x, y, TRUE)
    /\ presents' = presents \cup {<<x, y>>}
    /\ UNCHANGED <<virtualFilesize, mark, lastOp, notPresents, phase>>
    /\ UNCHANGED notMapVars

\* image_updateCachemap( image, x, y, false )
MarkNotPresent(x, y) ==
    /\ Cardinality(notPresents) < MaxMarks
    /\ x <= y
    /\ \A r \in presents \cup notPresents : Disjoint(x, y, r)
    /\ cache_map' = image_updateCachemap(cache_map, virtualFilesize, x, y, FALSE)
    /\ notPresents' = notPresents \cup {<<x, y>>}
    /\ phase' = "clear"
    /\ UNCHANGED <<virtualFilesize, mark, lastOp, presents>>
    /\ UNCHANGED notMapVars

MarksNext ==
    \/ \E x, y \in MarkOffsets(virtualFilesize) : MarkPresent(x, y)
    \/ \E x, y \in MarkOffsets(virtualFilesize) : MarkNotPresent(x, y)

SpecMarks == MarksInit /\ [][MarksNext]_vars

-----------------------------------------------------------------------------
(* Properties of the cache map                                             *)

\* all bit positions of the map bytes, the unused ones of the last byte included
MapBits == 0 .. BITS_PER_BYTE * IMGSIZE_TO_MAPBYTES(virtualFilesize) - 1

C3_MarksUnionMinus ==
    /\ cache_map # NULL
    /\ \A b \in MapBits :
          BlockBit(cache_map, b) =
              /\ \E r \in presents : BlockInside(b, r[1], r[2])
              /\ ~\E r \in notPresents : BlockInOutward(b, r[1], r[2])

\* two present and two not-present marks were made, and some block is
\* still present while another one was cleared again
C3_Witness ==
    /\ Cardinality(presents) = MaxMarks
    /\ Cardinality(notPresents) = MaxMarks
    /\ \E b \in Blocks : BlockBit(cache_map, b)
    /\ \E b \in Blocks :
          /\ ~BlockBit(cache_map, b)
          /\ \E r \in presents : BlockInside(b, r[1], r[2])

\* C4: image_isComplete on an allocated map frees the map and returns true
\* exactly when the bit of every block 0 .. virtualFilesize/4096 - 1 is set
\* (the unused high bits of the last byte do not count); otherwise it
\* returns false and leaves the map unchanged.
C4_IsCompleteExact ==
    [][(lastOp'.op = "isComplete" /\ cache_map # NULL) =>
          LET all == \A b \in Blocks : BlockBit(cache_map, b)
          IN  /\ lastOp'.ret = all
              /\ all => cache_map' = NULL
              /\ ~all => cache_map' = cache_map]_vars

\* the map [0x1F] of an image of 20480 bytes was found complete and freed
C4_Witness ==
    /\ virtualFilesize = 20480
    /\ lastOp.op = "isComplete"
    /\ lastOp.ret
    /\ lastOp.changed
    /\ cache_map = NULL

\* C5 as claimed: once cache_map is NULL no operation makes it non-NULL again.
C5_CompletePermanent == [][cache_map = NULL => cache_map' = NULL]_vars

\* C5 as amended: a freed map stays freed under image_isComplete and under
\* image_updateCachemap with set=true; only image_updateCachemap with
\* set=false on a range whose outward rounding is not empty allocates a
\* map again, with every bit set except those of the cleared blocks.
C5_OnlyClearRecreates ==
    [][(cache_map = NULL /\ cache_map' # NULL) =>
          /\ mark # NoMark
          /\ ~mark.set
          /\ AlignDown(mark.start) < AlignUp(mark.end)
          /\ \A b \in MapBits :
                BlockBit(cache_map', b) = ~BlockInOutward(b, mark.start, mark.end)]_vars

\* a range of at least one byte was marked present on a complete image,
\* and the map is still freed
C5_Witness ==
    /\ lastOp.op = "updateCachemap"
    /\ lastOp.set
    /\ lastOp.nonempty
    /\ cache_map = NULL

\* C6: no image object is freed while its users count is greater than zero,
\* whatever the interleaving of image_get, image_lock, image_release,
\* image_remove, image_loadAll, image_tryFreeAll and image_ensureDiskSpace.
C6_NoFreeWhileInUse == \A img \in Images : ~freedInUse[img]

\* C7: a call of image_release lowers users by exactly one, frees the image
\* if and only if the count reached zero and the image is not in _images[],
\* and no image is ever freed twice.
C7_ReleaseExact ==
    [][/\ lastRelease' # lastRelease =>
            /\ lastRelease'.after = lastRelease'.before - 1
            /\ users'[lastRelease'.img] = users[lastRelease'.img] - 1
            /\ lastRelease'.freed <=> (lastRelease'.after = 0 /\ ~lastRelease'.listed)
       /\ \A img \in Images : freeCount'[img] <= 1]_vars


\* the blocks of the replicated image
UplinkBlocks == 0 .. (UplinkFilesize \div DNBD3_BLOCK_SIZE) - 1

\* C1: in uplink_handle_receive a cache-map bit changes only in the step
\* that follows a write() of the payload which returned ret > 0 after a
\* successful lseek, the bit becomes set, and its block lies inside
\* [start, start + ret); after a failed lseek or write no bit changes.
C1_CacheAfterWrite ==
    [][/\ (cache_map' # cache_map /\ cache_map' # NULL) =>
             /\ up.pc = "written"
             /\ wr.lseek
             /\ wr.ret > 0
             /\ \A b \in UplinkBlocks :
                   BlockBit(cache_map', b) # BlockBit(cache_map, b) =>
                      BlockBit(cache_map', b) /\ BlockInside(b, wr.start, wr.start + wr.ret)
       /\ (up.pc = "written" /\ up'.pc # "written" /\ (~wr.lseek \/ wr.ret <= 0)) =>
             cache_map' = cache_map]_vars

\* a payload of two blocks was written only in part: the first block is
\* marked as cached, the second is not
C1_Witness ==
    /\ workload = 1
    /\ up.pc = "reply"
    /\ cache_map # NULL
    /\ BlockBit(cache_map, 0)
    /\ ~BlockBit(cache_map, 1)

\* no slot below queueLen is free and queueLen is at the capacity
QueueFull ==
    /\ queueLen = SERVER_MAX_UPLINK_QUEUE
    /\ \A i \in 0 .. queueLen - 1 : queue[i].status # ULR_FREE

\* C8: 0 <= queueLen <= SERVER_MAX_UPLINK_QUEUE in every reachable state;
\* uplink_request on a full queue returns false, and a call that returns
\* false changes no queue entry and not queueLen.
C8_QueueBounded ==
    /\ [](queueLen \in 0 .. SERVER_MAX_UPLINK_QUEUE)
    /\ [](\A h \in Handles, r \in Ranges :
             LET res == uplink_request(queue, queueLen, ClientOf(h), h, r[1], r[2] - r[1])
             IN  /\ QueueFull => ~res.ret
                 /\ ~res.ret => (res.queue = queue /\ res.queueLen = queueLen))
    /\ [][(lastReq' = "false" /\ lastReq # "false") =>
             (queue' = queue /\ queueLen' = queueLen /\ req' = req /\ signal' = signal)]_vars

\* a request was turned down because the queue is full
C8_Witness ==
    /\ lastReq = "false"
    /\ ~shutdown
    /\ QueueFull
    /\ \E h \in Handles : req[h] = NoReq /\ connected[ClientOf(h)]

\* C9: when the uplink thread ends (uplink_shutdown, _shutdown, or the
\* shutdown flag seen by uplink_mainloop), every request that was accepted
\* has been answered or failed: no client is left waiting.
C9_ShutdownAnswersAll ==
    [][(up.pc = "cleanup" /\ up'.pc = "done") => \A h \in Handles : req'[h] = NoReq]_vars

\* on RTT_DOCHANGE the old socket is closed and betterFd becomes fd
ChangeAdoptsBetterFd ==
    [][(rttTestResult = RTT_DOCHANGE /\ rttTestResult' = RTT_IDLE) =>
          /\ fd' = betterFd
          /\ fd' \in sockets'
          /\ fd \notin sockets'
          /\ up'.pc = "send"
          /\ ~up'.newOnly]_vars

\* every request written upstream has the offset and length of its slot,
\* and the pass after a server change takes every ULR_PENDING slot
ResendUnchanged ==
    [][(up.pc = "send" /\ up'.pc = "send" /\ up'.j > up.j) =>
          LET e == queue[up'.j - 1]
          IN  /\ e.status \in {ULR_NEW, ULR_PENDING}
              /\ inflight' \in {inflight, inflight \cup {<<e.from, e.to>>}}
              /\ queue' = [queue EXCEPT ![up'.j - 1].status = ULR_PENDING]
              /\ \A k \in up.j .. up'.j - 2 :
                    queue[k].status # ULR_NEW /\ (up.newOnly \/ queue[k].status # ULR_PENDING)]_vars

\* a request that a client waits for is in a slot below queueLen, or its
\* reply is being written to the client
RequestsAnswerable ==
    \A h \in Handles :
        req[h] # NoReq =>
            \/ \E i \in 0 .. queueLen - 1 :
                  /\ queue[i].status # ULR_FREE
                  /\ queue[i].handle = h
                  /\ queue[i].client = ClientOf(h)
                  /\ <<queue[i].from, queue[i].to>> = req[h]
            \/ up.pc = "writev" /\ up.out.handle = h

\* C10: on RTT_DOCHANGE the uplink thread closes the old socket, adopts
\* betterFd and sends every pending request again with the same offset and
\* length; every client request gets exactly one reply, with the handle
\* the client gave: no reply goes to a client that does not wait for it,
\* and no waiting request drops out of the queue.
C10_ChangeExactlyOneReply ==
    /\ ChangeAdoptsBetterFd
    /\ ResendUnchanged
    /\ []~badReply
    /\ []RequestsAnswerable

\* a slot below queueLen that is ULR_NEW or ULR_PENDING covers [start, end)
Covered(start, end) ==
    \E i \in 0 .. queueLen - 1 :
        /\ queue[i].status \in {ULR_NEW, ULR_PENDING}
        /\ queue[i].from <= start
        /\ queue[i].to >= end

\* uplink_request took the request of handle h in this step
Accepted(h) == req[h] = NoReq /\ req'[h] # NoReq

\* a request that is covered by a queued one is stored as ULR_PENDING in
\* one slot, the uplink thread is not woken up and nothing goes upstream;
\* a request that is not covered is stored as ULR_NEW and wakes the thread
AttachesToCovering ==
    [][\A h \in Handles :
          Accepted(h) =>
             LET r == req'[h]
                 st == IF Covered(r[1], r[2]) THEN ULR_PENDING ELSE ULR_NEW
             IN  /\ \E k \in 0 .. queueLen' - 1 :
                       queue' = [queue EXCEPT ![k] = [status |-> st, from |-> r[1], to |-> r[2],
                                                      handle |-> h, client |-> ClientOf(h)]]
                 /\ inflight' = inflight
                 /\ up' = up
                 /\ signal' = (signal \/ ~Covered(r[1], r[2]))]_vars

\* the pass of uplink_send_requests for new requests writes a request for
\* ULR_NEW slots only: an attached request is not sent on its own
NewPassSkipsAttached ==
    [][(up.pc = "send" /\ up.newOnly /\ up'.pc = "send" /\ up'.j > up.j) =>
          /\ queue[up'.j - 1].status = ULR_NEW
          /\ \A k \in 0 .. queueLen - 1 :
                queue[k].status = ULR_PENDING => queue'[k] = queue[k]]_vars

\* the reply for [s, e) turns exactly the ULR_PENDING slots inside [s, e)
\* into ULR_PROCESSING, and no slot is ULR_PROCESSING outside the reply loop
ReplyMarksInside ==
    /\ [][(up.pc = "written" /\ up'.pc = "reply") =>
             \A i \in DOMAIN queue :
                IF /\ i < queueLen
                   /\ queue[i].status = ULR_PENDING
                   /\ wr.start <= queue[i].from
                   /\ queue[i].to <= wr.start + wr.size
                THEN queue'[i] = [queue[i] EXCEPT !.status = ULR_PROCESSING]
                ELSE queue'[i] = queue[i] /\ queue[i].status # ULR_PROCESSING]_vars
    /\ [](up.pc \notin {"reply", "writev"} =>
             \A i \in DOMAIN queue : queue[i].status # ULR_PROCESSING)

\* a reply is written for a ULR_PROCESSING slot only, with the handle, the
\* client and the range [from, to) of that slot, and the slot is freed
AnswersOwnSlice ==
    [][(up.pc = "reply" /\ up'.pc = "writev") =>
          LET e == queue[up'.i]
          IN  /\ e.status = ULR_PROCESSING
              /\ up'.out = [client |-> e.client, handle |-> e.handle, from |-> e.from, to |-> e.to]
              /\ queue' = [queue EXCEPT ![up'.i] = FreeSlot]]_vars

ErrorKeepsQueue ==
    [][(fd # -1 /\ fd' = -1 /\ up.pc \in {"wait", "recv"}) =>
          /\ fd \notin sockets'
          /\ queue' = queue
          /\ queueLen' = queueLen
          /\ req' = req]_vars

\* while there is no connection a ULR_PENDING slot below queueLen changes
\* only when its client goes away
PendingStaysPending ==
    [][fd = -1 =>
          \A i \in 0 .. queueLen - 1 :
             (queue[i].status = ULR_PENDING /\ queue'[i] # queue[i]) =>
                ~connected'[queue[i].client]]_vars

\* the new connection is adopted and uplink_send_requests starts at slot
\* 0 for all requests; that pass leaves out no ULR_PENDING or ULR_NEW slot
\* below queueLen
ResendsAllPending ==
    /\ [][(fd = -1 /\ fd' # -1) =>
             (fd' = betterFd /\ up'.pc = "send" /\ up'.j = 0 /\ ~up'.newOnly /\ queue' = queue)]_vars
    /\ [][(up.pc = "send" /\ ~up.newOnly /\ up' # up) =>
             LET last == IF up'.pc = "send" THEN up'.j - 2 ELSE queueLen - 1
             IN  /\ \A k \in up.j .. last : queue[k].status \notin {ULR_NEW, ULR_PENDING}
                 /\ up'.pc = "send" =>
                       /\ queue[up'.j - 1].status \in {ULR_NEW, ULR_PENDING}
                       /\ queue' = [queue EXCEPT ![up'.j - 1].status = ULR_PENDING]
                       /\ fd # -1 =>
                             inflight' \in {inflight, inflight \cup {<<queue[up'.j - 1].from,
                                                                       queue[up'.j - 1].to>>}}]_vars

\* C12: a socket error in uplink_handle_receive or an error event on the
\* uplink socket sets link->fd to -1, closes the socket and leaves every
\* ULR_PENDING slot as it is: none is freed or failed, and the pass of
\* uplink_send_requests after the next connection sends all of them again.
C12_ErrorKeepsPending ==
    /\ ErrorKeepsQueue
    /\ PendingStaysPending
    /\ ResendsAllPending

\* the connection that the request for the whole image was sent on is
\* lost: the request still waits as ULR_PENDING, next to an attached one
C12_Witness ==
    /\ workload = 2
    /\ fd = -1
    /\ sockets = {}
    /\ rttTestResult = RTT_IDLE
    /\ up.pc = "post"
    /\ connected[1] /\ connected[2]
    /\ queueLen = 2
    /\ queue[0].status = ULR_PENDING /\ req[queue[0].handle] = <<0, 8192>>
    /\ queue[1].status = ULR_PENDING /\ req[queue[1].handle] = <<0, 4096>>

\* C13: at most one uplink thread exists per image, and the assertion
\* image->uplink == NULL at the start of uplink_init never fails, however
\* image_get and loadImageProxy calls for the image interleave.
C13_OneUplink ==
    /\ Cardinality(workers) <= 1
    /\ ~assertFailed

\* the objects in _images[] with the given name
Named(name) == {o \in Objects : (\E i \in ListSlots : regList[i] = o) /\ objName[o] = name}

\* C14: image_get( name, 0, ... ) returns the entry with the highest rid
\* among the entries with that name, NULL if there is none;
\* image_get( name, r, ... ) with r # 0 returns only an entry with that name
\* whose rid is r, NULL if there is none; the users count of the returned
\* image was incremented by exactly one, and no other count changed.
C14_GetHighestRid ==
    [][\A t \in Threads :
          (caller[t].pc # "returned" /\ caller'[t].pc = "returned") =>
             LET c == caller'[t]
                 res == c.candidate
                 fit == IF c.revision = 0 THEN Named(c.name)
                        ELSE {o \in Named(c.name) : objRid[o] = c.revision}
             IN  /\ fit = {} => (res = 0 /\ objUsers' = objUsers)
                 /\ fit # {} =>
                       /\ res \in fit
                       /\ \A o \in fit : objRid[o] <= objRid[res]
                       /\ objUsers' = [objUsers EXCEPT ![res] = @ + 1]]_vars

\* image_get( "a", 0 ) returned the third entry, whose rid is the highest
\* of the two entries named "a", while another thread holds a reference
\* to the same image
C14_Witness ==
    \E t \in Threads :
        /\ caller[t].pc = "returned"
        /\ caller[t].revision = 0
        /\ caller[t].candidate = regList[2]
        /\ regList[2] # 0
        /\ \E o \in Named(caller[t].name) : objRid[o] < objRid[caller[t].candidate]
        /\ objUsers[caller[t].candidate] = 2

\* the count that line 834 reads for server a in the pass that this step
\* is: the counts after the update of lines 810-830
GateCount(a) == IF a = lastPass'.best THEN bestCount'[a] ELSE Decay(bestCount[a])

\* the two threshold conditions of the claim, on the round trip times that
\* the pass has measured
OverThreshold(cur, best) ==
    \/ altRtt'[cur] > altRtt'[best] + RTT_ABSOLUTE_THRESHOLD
    \/ RTT_THRESHOLD_FACTOR(altRtt'[cur]) > altRtt'[best] + 1000

\* this step is a probe pass with a socket and a known current server
\* that has found a best server
GatedPass ==
    /\ sockFd # -1
    /\ currentServer # 0
    /\ ~lastPass'.panic
    /\ lastPass'.best # 0

\* C15: with a live connection and a known current server, a probe pass
\* in which best.bestCount - current.bestCount < 8 and neither
\* current.rtt > best.rtt + RTT_ABSOLUTE_THRESHOLD nor
\* RTT_THRESHOLD_FACTOR(current.rtt) > best.rtt + 1000 holds ends without
\* switching the connection
C15_GateKeepsConnection ==
    [][(/\ GatedPass
        /\ GateCount(lastPass'.best) - GateCount(currentServer) < 8
        /\ ~OverThreshold(currentServer, lastPass'.best))
       => (currentServer' = currentServer /\ sockFd' = sockFd /\ lastPass'.target = 0)]_vars

\* a pass whose best server is faster than the current one and has a
\* count above 12, less than 8 above the current server's, has left the
\* connection alone
C15_Witness ==
    /\ sockFd # -1
    /\ currentServer # 0
    /\ ~lastPass.panic
    /\ lastPass.best \notin {0, currentServer}
    /\ lastPass.target = 0
    /\ bestCount[lastPass.best] > 12
    /\ bestCount[lastPass.best] - bestCount[currentServer] < 8
    /\ altRtt[lastPass.best] < altRtt[currentServer]

\* C16: every alt-server's bestCount stays in the range 0..50
C16_BestCountRange == \A a \in AltIndexes : bestCount[a] \in 0 .. 50

\* C17, as it was stated: without a current socket (panic mode),
\* probeAltServers switches to the candidate with the lowest round trip
\* time among the candidates that reply
C17_PanicFastest ==
    (lastPass.nosock /\ lastPass.target # 0)
    => \A a \in AltIndexes :
         lastPass.meas[a] # Fail => lastPass.meas[lastPass.target] <= lastPass.meas[a]

\* C17: without a current socket (panic mode), probeAltServers switches to
\* the first candidate in the order of the table that replies, without
\* comparing round trip times; it switches to none if none replies, and
\* stays without a socket if getpeername fails on the new one
C17_PanicFirstReply ==
    lastPass.nosock
    => /\ \A a \in AltIndexes :
            lastPass.target = a
            <=> (lastPass.meas[a] # Fail /\ \A b \in AltIndexes : b < a => lastPass.meas[b] = Fail)
       /\ (lastPass.target # 0 /\ sockFd # -1) => currentServer = lastPass.target

\* a pass without a socket has switched to server 1 although server 2
\* replies faster
C17_Witness ==
    /\ lastPass.nosock
    /\ lastPass.target = 1
    /\ currentServer = 1
    /\ sockFd # -1
    /\ lastPass.meas[2] # Fail
    /\ lastPass.meas[2] < lastPass.meas[1]

StatedRank(l) ==
    CASE l \in {"reloadLock", "remoteCloneLock"} -> 1
      [] l = "imageListLock" -> 2
      [] l = "image->lock" -> 3
      [] l = "integrityQueueLock" -> 4
      [] l = "altServersLock" -> 5
      [] l = "queueLock" -> 6
      [] l = "client->sendMutex" -> 7
      [] OTHER -> 0

\* the same order with the integrity-queue lock before the registry lock
QueueFirstRank(l) ==
    CASE l \in {"reloadLock", "remoteCloneLock"} -> 1
      [] l = "integrityQueueLock" -> 2
      [] l = "imageListLock" -> 3
      [] l = "image->lock" -> 4
      [] l = "altServersLock" -> 5
      [] l = "queueLock" -> 6
      [] l = "client->sendMutex" -> 7
      [] OTHER -> 0

\* thread t takes lock l in this step
Takes(t, l) == holder[l] # t /\ holder'[l] = t

\* C19, as it was stated: no thread ever acquires a lock that comes
\* earlier in the order reload/remoteClone lock, registry lock, per-image
\* lock, integrity-queue lock, alt-server registry lock, uplink queue lock,
\* per-client send mutex while it holds a lock that comes later in it
C19_StatedOrder ==
    [][\A t \in LockThreads : \A l, h \in Locks :
          (Takes(t, l) /\ holder[h] = t /\ StatedRank(l) > 0 /\ StatedRank(h) > 0)
          => StatedRank(l) >= StatedRank(h)]_vars

\* C19: no thread ever acquires a lock that comes earlier in the order
\* reload/remoteClone lock, integrity-queue lock, registry lock, per-image
\* lock, alt-server registry lock, uplink queue lock, per-client send mutex
\* while it holds a lock that comes later in it; the integrity worker
\* holds the integrity-queue lock while it calls image_lock and
\* image_release
C19_QueueFirstOrder ==
    [][\A t \in LockThreads : \A l, h \in Locks :
          (Takes(t, l) /\ holder[h] = t /\ QueueFirstRank(l) > 0 /\ QueueFirstRank(h) > 0)
          => QueueFirstRank(l) >= QueueFirstRank(h)]_vars

\* the integrity worker is in image_lock or image_release: it holds the
\* integrity-queue lock, the registry lock and the lock of the image
C19_Witness ==
    /\ holder["integrityQueueLock"] = "integrity"
    /\ holder["imageListLock"] = "integrity"
    /\ holder["image->lock"] = "integrity"

\* thread t is about to call connect, send, recv, write or writev on a
\* socket
AtNet(t) == routine[t] # "idle" /\ NextOp(t).op = "net"

\* C20, as it was stated: no lock other than a per-client send mutex is
\* held while a thread performs network I/O
C20_NoLockAtNet ==
    \A t \in LockThreads : AtNet(t) => Held(t) \subseteq {"client->sendMutex"}

\* C20: while a thread performs network I/O it holds no lock other than a
\* per-client send mutex, pendingLockConsume in the RTT probe thread and
\* reloadLock in a thread that clones an image: the uplink holds no lock
\* when it writes upstream and only the client's send mutex in writev,
\* and the RTT probe thread holds none of pendingLockWrite,
\* altServersLock and rttLock while it connects, sends or receives
C20_FewLocksAtNet ==
    \A t \in LockThreads :
        AtNet(t) => Held(t) \subseteq ({"client->sendMutex"}
                                       \cup (IF t = "rtt" THEN {"pendingLockConsume"} ELSE {})
                                       \cup (IF t = "loader" THEN {"reloadLock"} ELSE {}))

\* the uplink is about to call writev with the client's send mutex and
\* without the queue lock, while the RTT probe thread is about to call
\* connect or recv with pendingLockConsume
C20_Witness ==
    /\ AtNet("uplink")
    /\ Held("uplink") = {"client->sendMutex"}
    /\ AtNet("rtt")
    /\ Held("rtt") = {"pendingLockConsume"}

\* thread t, in image_ensureDiskSpace, takes the image out of _images[]
\* in this step (image_remove, lines 474-481)
ReaperRemoves(t) ==
    /\ th[t].inEds
    /\ th[t].pc = "rem_locked"
    /\ th'[t].pc # "rem_locked"

\* C22: image_ensureDiskSpace removes only an image that nobody but the
\* reaper references at the moment it is removed from the registry
\* (users == 1, the reaper's own reference): an image that a client
\* obtained through image_get before the removal is never removed
C22_RemovesUnreferenced ==
    [][\A t \in Threads :
          (ReaperRemoves(t) /\ \A o \in Threads \ {t} : ~th[o].inEds)
          => users[th[t].img] = 1]_vars

\* the edges of the cycle Free -> New -> Pending -> Processing -> Free
CycleEdges ==
    {<<ULR_FREE, ULR_NEW>>, <<ULR_NEW, ULR_PENDING>>, <<ULR_PENDING, ULR_PROCESSING>>,
     <<ULR_PROCESSING, ULR_FREE>>}

\* the clients for which uplink_removeClient runs in this step
Leaving == {c \in Clients : connected[c] /\ ~connected'[c]}

\* an entry at a lower index than i, New or Pending, covers what slot i
\* holds after this step
CoveredBelow(i) ==
    \E p \in 0 .. i - 1 :
        /\ queue[p].status \in {ULR_NEW, ULR_PENDING}
        /\ queue[p].from <= queue'[i].from
        /\ queue[p].to >= queue'[i].to

\* C24, as it was stated: every status change of an uplink queue entry
\* follows the cycle Free -> New -> Pending -> Processing -> Free; no slot
\* goes from Free directly to Pending, from New or Pending directly to
\* Free, or along any other edge
C24_StatedCycle ==
    [][\A i \in DOMAIN queue :
          queue'[i].status # queue[i].status
          => <<queue[i].status, queue'[i].status>> \in CycleEdges]_vars

\* C24: the status of a queue entry (a slot below queueLen) changes along
\* Free -> New -> Pending -> Processing -> Free, or to Free from any status
\* when uplink_removeClient runs for the client of the entry; an entry
\* that uplink_request appends (slot queueLen) starts as New, or as
\* Pending without having been New if an entry at a lower index covers it
C24_CycleWithAttach ==
    [][\A i \in DOMAIN queue :
          queue'[i].status # queue[i].status
          => IF i >= queueLen
             THEN /\ queueLen' = i + 1
                  /\ \/ queue'[i].status = ULR_NEW
                     \/ queue'[i].status = ULR_PENDING /\ CoveredBelow(i)
             ELSE \/ <<queue[i].status, queue'[i].status>> \in CycleEdges
                  \/ queue'[i].status = ULR_FREE /\ queue[i].client \in Leaving]_vars

\* slot 1 holds a request that was attached to the request of slot 0 and
\* is Pending, while slot 0 is still New and nothing was sent upstream
C24_Witness ==
    /\ queueLen = 2
    /\ queue[0].status = ULR_NEW
    /\ queue[1].status = ULR_PENDING
    /\ queue[0].from <= queue[1].from
    /\ queue[0].to >= queue[1].to
    /\ fd = -1
    /\ rttTestResult = RTT_IDLE
    /\ up.pc = "wait"

\* the request of handle h is stored in slot i in this step
Stores(i, h) ==
    /\ req[h] = NoReq
    /\ req'[h] # NoReq
    /\ queue'[i] # queue[i]
    /\ queue'[i].handle = h

\* the entries below queueLen, New or Pending, that cover what handle h
\* asks for in this step
Covering(h) ==
    {p \in 0 .. queueLen - 1 :
        /\ queue[p].status \in {ULR_NEW, ULR_PENDING}
        /\ queue[p].from <= req'[h][1]
        /\ queue[p].to >= req'[h][2]}

\* C25: whenever uplink_request attaches a new request to a covering
\* New/Pending entry at index p (the first one in the queue), the new
\* request is stored as Pending at an index strictly greater than p, also
\* when a Free slot with a lower index exists
C25_AttachedAbove ==
    [][\A h \in Handles : \A i \in DOMAIN queue :
          (Stores(i, h) /\ Covering(h) # {})
          => /\ queue'[i].status = ULR_PENDING
             /\ \A p \in Covering(h) : (\A o \in Covering(h) : p <= o) => i > p]_vars

\* the request of handle 1 was attached to the entry of slot 1 and stored
\* in slot 2 although slot 0 is Free
C25_Witness ==
    /\ lastReq = "true"
    /\ queueLen = 3
    /\ queue[0].status = ULR_FREE
    /\ queue[1].status \in {ULR_NEW, ULR_PENDING}
    /\ queue[2].status = ULR_PENDING
    /\ queue[2].handle = 1
    /\ queue[1].from <= queue[2].from
    /\ queue[1].to >= queue[2].to
    /\ req[1] = <<queue[2].from, queue[2].to>>

\* C23: when image_get with checkIfWorking finds that the size of the
\* backing file differs from realFilesize, or that lseek or pread on it
\* fails, the image it returns is in the not-working state afterwards,
\* and stays so: no other thread sets working back to true
C23_FailedCheckDisables ==
    lastGet.found \in {"lseek", "size", "pread"} => ~chkWorking[lastGet.ret]

-----------------------------------------------------------------------------
(* The integrity checker                                                   *)

\* C21: the range that integrity_main passes to image_updateCachemap after
\* a CRC mismatch ends inside the image (end <= virtualFilesize), also for
\* the last hash block of an image whose size is no multiple of 16 MiB
C21_ClearInsideImage ==
    lastClear.image # 0 => lastClear.end <= IntegritySize(lastClear.image)

\* C30: after integrity_init, whether or not the thread was created, every
\* write of integrity_check goes to an index in 0 .. CHECK_QUEUE_SIZE - 1,
\* queueLen is at most CHECK_QUEUE_SIZE, no two live entries hold the same
\* pair, and a call for a queued pair writes nothing
C30_BoundedNoDuplicates ==
    checker.pc # "unborn" =>
        /\ lastCheck.wrote => lastCheck.slot \in 0 .. CHECK_QUEUE_SIZE - 1
        /\ integrityQueueLen <= CHECK_QUEUE_SIZE
        /\ \A image \in IntegrityImages, block \in {0, 1} :
              Cardinality(LiveSlots(checkQueue, integrityQueueLen, image, block)) <= 1
        /\ lastCheck.queued => ~lastCheck.wrote

-----------------------------------------------------------------------------
(* The RTT measurements of the server                                      *)

\* altservers_main writes the result of a pass
VerdictStep == altThread.pc = "probing" /\ altThread'.pc = "release"

\* altservers_main ends a pass
PassEnds == altThread.pc = "release" /\ altThread'.pc # "release"

\* the result is as stated: RTT_DOCHANGE if and only if a server that is not
\* the current one replied and the uplink has no socket or the best server
\* is below 10 s and below RTT_THRESHOLD_FACTOR of the current one;
\* RTT_NOT_REACHABLE if and only if no server replied and the current one
\* was not measured; RTT_DONTCHANGE in every other case
VerdictAsStated ==
    LET change == /\ altThread.candidateReplied
                  /\ \/ link.fd = -1
                     \/ /\ altThread.bestRtt < 10000000
                        /\ RTT_THRESHOLD_FACTOR(altThread.currentRtt) > altThread.bestRtt
        dead   == ~altThread.candidateReplied /\ ~altThread.currentMeasured
        v      == link'.rttTestResult
    IN  /\ v = RTT_DOCHANGE <=> change
        /\ v = RTT_NOT_REACHABLE <=> dead
        /\ ~change /\ ~dead => v = RTT_DONTCHANGE

\* C26 as stated: the result of a pass is as stated and the pass ends with
\* rttTestResult different from RTT_INPROGRESS
C26_StatedVerdict ==
    [][/\ VerdictStep => VerdictAsStated
       /\ PassEnds => link'.rttTestResult # RTT_INPROGRESS]_vars

\* C26: the result of a pass is as stated and every pass writes a result
\* different from RTT_INPROGRESS before it ends; when the pass ends the
\* uplink thread may have asked for the next measurement already
C26_VerdictWritten ==
    [][VerdictStep => VerdictAsStated /\ link'.rttTestResult # RTT_INPROGRESS]_vars

\* a pass for an uplink with a socket found a better server
C26_Witness ==
    altThread.pc = "release" /\ link.rttTestResult = RTT_DOCHANGE /\ link.fd # -1

\* the sockets that somebody will use or close
OwnedSocks ==
    ({link.fd, altThread.bestSock}
        \cup (IF linkThread = "done" THEN {} ELSE {link.betterFd})) \ {-1}

\* C27: altservers_main never writes uplink->fd; every socket it opened is
\* closed when the pass has written its result, except the one it stored in
\* betterFd together with RTT_DOCHANGE; RTT_DOCHANGE implies betterFd # -1;
\* the uplink thread makes that socket its fd or closes it, no socket is
\* open when the thread has ended
C27_SocketOwnership ==
    /\ [](/\ openSocks = OwnedSocks
          /\ altThread.pc # "probing" => altThread.bestSock = -1
          /\ link.rttTestResult = RTT_DOCHANGE => link.betterFd # -1
          /\ link.betterFd # -1 => link.rttTestResult = RTT_DOCHANGE
          /\ linkThread = "done" => openSocks = {})
    /\ [][altThread' # altThread => link'.fd = link.fd]_vars

\* the uplink thread ended and closed the socket it was handed
C27_Witness ==
    linkThread = "done" /\ link.betterFd # -1 /\ link.rttTestResult = RTT_DOCHANGE

\* C28: while the uplink runs and the image is incomplete, after the result
\* RTT_NOT_REACHABLE the uplink thread asks for a measurement again
C28_AsksAfterNotReachable ==
    (linkThread = "loop" /\ link.rttTestResult = RTT_NOT_REACHABLE)
        ~> (link.asked \/ linkThread # "loop")

\* C29: once altservers_removeUplink returned, the uplink is in no slot of
\* pending[], no pass for it is running and nothing of the uplink is
\* written any more
C29_RemovedIsLeftAlone ==
    /\ [](removed =>
             /\ \A i \in DOMAIN pending : pending[i] # "uplink"
             /\ altThread.pc \notin {"probing", "release"})
    /\ [][removed => link' = link]_vars

\* altservers_main had seen the uplink in a slot and waits for
\* pendingLockConsume; altservers_removeUplink emptied the slot
C29_Witness ==
    /\ removed
    /\ altThread.pc = "lock"
    /\ pending[altThread.itLink] = "NULL"
    /\ link.rttTestResult = RTT_NOT_REACHABLE

-----------------------------------------------------------------------------
(* The image list, the integrity queue and the RTT slots: further properties *)

\* C37: _images[] never holds two entries with the same name and rid; the
\* objects of this list all have one name and one rid
C37_OneEntryPerImage ==
    Cardinality({i \in 0 .. chkNum - 1 : chkList[i] # 0}) <= 1

\* the probe thread is about to take the uplink out of pending[itLink]:
\* it holds no lock yet and the slot holds the uplink
ProbeTakesUplink ==
    /\ altThread.pc = "lock"
    /\ consumeLock = "none"
    /\ pending[altThread.itLink] = "uplink"

\* the uplink thread is at the place of uplink_mainloop from which it
\* calls altservers_findUplink when a check is due
UplinkMayAsk ==
    /\ linkThread = "loop"
    /\ link.rttTestResult \in {RTT_IDLE, RTT_DONTCHANGE}

\* C39: the assertions of the RTT hand-off hold: when the probe thread takes
\* an uplink out of a pending slot its rttTestResult is RTT_INPROGRESS, and
\* when the uplink thread calls altservers_findUplink its betterFd is -1
C39_HandOffAssertions ==
    /\ ProbeTakesUplink => link.rttTestResult = RTT_INPROGRESS
    /\ UplinkMayAsk => link.betterFd = -1

\* a pass that was asked for after the uplink changed to a better server
C39_Witness ==
    /\ altThread.pc = "probing"
    /\ link.asked
    /\ link.fd # -1
    /\ link.betterFd = -1
    /\ link.rttTestResult = RTT_INPROGRESS

\* the steps of integrity_main
CheckerNext ==
    \/ CheckerWake
    \/ \E gone \in BOOLEAN : CheckerScan(gone)
    \/ \E result \in {"nofd", "ok", "bad"}, assertsOff \in BOOLEAN :
          CheckerVerify(result, assertsOff)

\* the integrity checker under a fair scheduler: integrity_main runs when
\* it can
SpecIntegrityFair == IntegrityInit /\ [][IntegrityNext]_vars /\ WF_vars(CheckerNext)

\* no slot below queueLen holds an image
NoLiveEntry ==
    \A i \in DOMAIN checkQueue : i < integrityQueueLen => checkQueue[i].image = 0

\* C38: whenever the queue holds no live entry while integrity_main holds
\* integrityQueueLock in its loop, integrity_main eventually waits on the
\* condition variable and so releases the lock
C38_WorkerWaits ==
    (checker.pc = "scan" /\ NoLiveEntry) ~> (checker.pc = "wait")

\* C34: every queue entry of the uplink that is not ULR_FREE has an index
\* below queueLen; the tail shrink of uplink_handle_receive removes no
\* entry that uplink_request stored while the queue lock was dropped
C34_EntriesBelowQueueLen ==
    \A i \in DOMAIN queue : queue[i].status # ULR_FREE => i < queueLen

-----------------------------------------------------------------------------
(* The uplink under a fair scheduler                                       *)

\* the steps of the uplink thread
UplinkThreadNext ==
    \/ MainloopSignal
    \/ MainloopTimeout
    \/ \E ok \in BOOLEAN : SendRequests(ok)
    \/ ReceiveDone
    \/ ReceiveMark
    \/ ReceiveSend
    \/ ReceiveWritev
    \/ MainloopStop
    \/ MainloopChange
    \/ \E due, locked, ka \in BOOLEAN : MainloopRtt(due, locked, ka)
    \/ MainloopCleanup

\* the uplink and its clients when every write to the uplink server succeeds
UplinkWritesNext ==
    \/ \E h \in Handles, r \in Ranges : ClientRequest(h, r)
    \/ \E c \in Clients : ClientGone(c)
    \/ MainloopSignal
    \/ MainloopTimeout
    \/ SendRequests(TRUE)
    \/ \E r \in Ranges, lseekOk \in BOOLEAN : \E ret \in WriteRets(r[2] - r[1]) :
          ReceiveReply(r, lseekOk, ret)
    \/ ReceiveError
    \/ ReceiveDone
    \/ ReceiveMark
    \/ ReceiveSend
    \/ ReceiveWritev
    \/ MainloopStop
    \/ MainloopChange
    \/ \E due, locked, ka \in BOOLEAN : MainloopRtt(due, locked, ka)
    \/ MainloopCleanup
    \/ \E v \in {RTT_DOCHANGE, RTT_DONTCHANGE, RTT_NOT_REACHABLE} : RttVerdict(v)
    \/ ServerShutdown
    \/ UplinkShutdown

\* the uplink thread runs when it can, and epoll_wait returns link->signal
\* when it is readable
SpecUplinkFair ==
    UplinkImageInit /\ [][UplinkWritesNext]_vars
        /\ WF_vars(UplinkThreadNext) /\ SF_vars(MainloopSignal)

\* a request for a range that covers the request of handle h is on its way
\* to the uplink server
SentUpstream(h) ==
    \E r \in inflight : r[1] <= req[h][1] /\ r[2] >= req[h][2]

\* C35: a request that uplink_request accepted is eventually sent upstream,
\* or covered by a request that is sent upstream, while the uplink has a
\* socket and is not told to stop, unless it was answered or its client
\* was removed
C35_AcceptedIsSent ==
    \A h \in Handles :
        (req[h] # NoReq /\ fd # -1)
            ~> (req[h] = NoReq \/ fd = -1 \/ Stopping \/ SentUpstream(h))

\* the steps of the uplink thread that begin with spin_lock( &link->queueLock ):
\* a round of uplink_send_requests, and in uplink_handle_receive the scan of
\* the queue and the return from writev
LocksQueueLock ==
    \/ \E ok \in BOOLEAN : SendRequests(ok)
    \/ ReceiveMark
    \/ ReceiveWritev

\* C36: the uplink is freed once and is not used after it was freed or
\* torn down: once link->shutdown is set, by uplink_shutdown or by the
\* thread that ends itself, queueLock is destroyed and no thread locks it
C36_NoLockAfterDestroy == [][shutdown => ~LocksQueueLock]_vars

-----------------------------------------------------------------------------
(* The list of alt servers for an uplink                                   *)

\* the entry of the table before the last call whose host is id
ListedEntry(id) ==
    lastList.before[CHOOSE k \in AltSlots : lastList.before[k].id = id]

\* the size that was asked for, not above numAltServers
ListLimit ==
    IF lastList.size <= 0 THEN 0
    ELSE IF lastList.size > numAltServers THEN numAltServers ELSE lastList.size

\* C33: altservers_getListForUplink returns at most min(size, numAltServers)
\* hosts, every occupied entry of the table at most once and no empty or
\* client-only entry (and no entry that is not private if only private
\* servers are wanted); the servers without failures come before the
\* failing ones; a failing server is returned only in an emergency, or if
\* its numFails is at most SERVER_BAD_UPLINK_THRES, or if its last failure
\* is at least SERVER_BAD_UPLINK_IGNORE old
C33_ListForUplink ==
    lastList.called =>
        LET out == lastList.output
        IN  /\ Len(out) <= ListLimit
            /\ \A i, j \in DOMAIN out : i # j => out[i] # out[j]
            /\ \A i \in DOMAIN out :
                  /\ \E k \in AltSlots : k < numAltServers /\ lastList.before[k].id = out[i]
                  /\ ListedEntry(out[i]).type # 0
                  /\ ~ListedEntry(out[i]).isClientOnly
                  /\ proxyPrivateOnly => ListedEntry(out[i]).isPrivate
                  /\ ListedEntry(out[i]).numFails > 0 =>
                        \/ lastList.emergency
                        \/ ListedEntry(out[i]).numFails <= SERVER_BAD_UPLINK_THRES
                        \/ ListedEntry(out[i]).age >= SERVER_BAD_UPLINK_IGNORE
            /\ \A i, j \in DOMAIN out :
                  (i < j /\ ListedEntry(out[i]).numFails > 0) => ListedEntry(out[j]).numFails > 0

\* a list with a server that did not fail before one that failed, from a
\* table in which another server is left out for its failures
C33_Witness ==
    /\ lastList.called
    /\ ~lastList.emergency
    /\ Len(lastList.output) = 2
    /\ ListedEntry(lastList.output[1]).numFails = 0
    /\ ListedEntry(lastList.output[2]).numFails > 0
    /\ \E k \in AltSlots :
          /\ k < numAltServers
          /\ lastList.before[k].numFails > SERVER_BAD_UPLINK_THRES
          /\ lastList.before[k].age < SERVER_BAD_UPLINK_IGNORE

-----------------------------------------------------------------------------
(* The hash blocks that image_updateCachemap hands to the checker          *)

\* the hash blocks that overlap the range that was marked
MarkedHashBlocks ==
    {b \in 0 .. IMGSIZE_TO_HASHBLOCKS(HashVirtualFilesize) - 1 :
        /\ b * HASH_BLOCK_SIZE < marker.end
        /\ (b + 1) * HASH_BLOCK_SIZE > marker.start}

\* every block of hash block b that lies in the image has its bit set, or
\* the map was freed because the image is complete
HashBlockPresent(b) ==
    \/ hbMap = NULL
    \/ \A k \in 0 .. (HashVirtualFilesize \div DNBD3_BLOCK_SIZE) - 1 :
          k \div (HASH_BLOCK_SIZE \div DNBD3_BLOCK_SIZE) = b =>
             BitIsSet(hbMap[k \div BITS_PER_BYTE], k % BITS_PER_BYTE)

\* C31: when image_updateCachemap( set ) has set a new bit of an image with
\* a crc32 list, every hash block that overlaps the marked range and is
\* complete when the call returns was passed to integrity_check;
\* image->lock is not held during integrity_check; a call that set no new
\* bit passes nothing
C31_CompleteBlocksAreChecked ==
    /\ marker.pc = "check" => hbLock = "none"
    /\ marker.pc = "done" =>
          IF marker.setNewBlocks /\ hbCrc
          THEN \A b \in MarkedHashBlocks :
                  HashBlockPresent(b) => b \in marker.passed
          ELSE marker.passed = {}

\* a call that completed both hash blocks and has passed both
C31_Witness ==
    /\ marker.pc = "done"
    /\ marker.setNewBlocks
    /\ marker.passed = {0, 1}

-----------------------------------------------------------------------------
(* image_getOrLoad of a proxy                                               *)

\* C32: image_getOrLoad( name, 0 ) of a proxy clones from an uplink server
\* only if that server offers a rid above the highest loaded rid of the
\* name; if no server offers a higher rid, or none answers, it returns the
\* loaded image with the highest rid, not NULL and not a lower revision
C32_HighestOrClone ==
    (lastLoad.called /\ lastLoad.revision = 0) =>
        /\ lastLoad.cloned # 0 => lastLoad.cloned > HighestRid(lastLoad.before)
        /\ (lastLoad.before # {}
            /\ \A r \in lastLoad.offers : r <= HighestRid(lastLoad.before))
              => lastLoad.ret = HighestRid(lastLoad.before)

\* a request that is in no list: neither in requests nor in the queue that
\* switchConnection is about to enqueue again
InNoList(r) == r \notin Listed(requests) /\ r \notin Listed(switchQueue)

\* C40: every request that was handed to connection_read is in the requests
\* list (or in the queue of switchConnection, which enqueues it again) until
\* it is answered, and it is answered at most once: no request is lost
C40_NoRequestLost ==
    \A r \in handed :
        /\ fuseReplies[r] <= 1
        /\ fuseReplies[r] = 0 => ~InNoList(r)

=============================================================================
